---------------------------- MODULE Spec2Model ----------------------------
(***************************************************************************)
(* Model of the maman15 backup server (src/maman15/server.py): the         *)
(* per-connection Client object, its message handlers and the             *)
(* DatabaseManager they write to.                                          *)
(*                                                                         *)
(* Conventions of the model:                                               *)
(*  - a request is the RequestMessage the handler sees: header identity,   *)
(*    code, declared payload_size, the number of bytes received, and the   *)
(*    payload fields the handlers slice out of it;                         *)
(*  - a name field is the sequence of symbols before the NUL padding; the  *)
(*    symbol NUL is a zero byte inside the field, BadByte a byte that is   *)
(*    no valid UTF-8;                                                      *)
(*  - Dispatch sends a code to the handler the case of that code names,    *)
(*    the dispatch the handlers are written for; match_request_code is the *)
(*    comparison the match statement makes as written, the int of the      *)
(*    header against the members of the Enum RequestCode;                  *)
(*  - a handler is an operator from (client, database, request, random     *)
(*    draws) to the client and database it leaves, the responses it sent   *)
(*    and the exception it raised ("none" when it returned);               *)
(*  - os.urandom is a draw from Ids (identities) or AesKeys (AES keys);    *)
(*  - RSA.import_key / PKCS1_OAEP / AES are the library calls: a public    *)
(*    key either imports or raises, Wrap and Dec name their results.       *)
(***************************************************************************)
EXTENDS Bags, FiniteSets, Integers, Sequences, TLC

VARIABLES
    sess,   \* the Client objects, one per accepted connection (sequence)
    db,     \* DatabaseManager: clients table, files table, saved files
    last,   \* the last handle_message call: session, request code, exception
    out,    \* the responses that call sent on the socket (sequence)
    progress, \* per session: how far its messages follow the retry protocol
    granted, \* per username: how many RegistrationSuccessful responses were sent
    wire,   \* per connection: the message the peer is sending and the bytes read
    frame,  \* the locals of a call of memcrc: b, the index in b, n, s, pc, result
    admitted \* per session: a SIGN_UP or SIGN_IN of it was answered with success

vars == <<sess, db, last, out, progress, granted, wire, frame, admitted>>

---------------------------------------------------------------------------
\* Bounds of the model.
MaxSessions == 1
NumIds == 1
NumKeys == 1
MaxFileRows == 2
MaxRetryRows == 4

---------------------------------------------------------------------------
\* Protocol constants.
CLIENT_ID_LEN == 16
PUBLIC_KEY_SIZE == 160
AES_KEY_SIZE == 16
MAX_USER_NAME_LEN == 255
MAX_FILE_NAME_LEN == 255
REQUEST_MIN_LEN == 23

SIGN_UP == 1025
SEND_PUBLIC_KEY == 1026
SIGN_IN == 1027
SEND_FILE == 1028
CRC_VALID == 1029
CRC_INVALID == 1030
CRC_INVALID_4TH_TIME == 1031

\* RequestCode: the seven recognised request codes.
RequestCode ==
    {SIGN_UP, SEND_PUBLIC_KEY, SIGN_IN, SEND_FILE, CRC_VALID, CRC_INVALID,
     CRC_INVALID_4TH_TIME}

---------------------------------------------------------------------------
\* Value domains.

\* Identities: 16-byte values. ZeroId is bytes(16), the value Client.__init__
\* gives client_id.
ZeroId == 0
Ids == 0..NumIds

\* AES keys: EmptyBytes is bytes(0) (the value create_new_client stores) and,
\* in a Client, an aes_key attribute that was never assigned.
EmptyBytes == 0
AesKeys == 1..NumKeys

\* Public keys: GoodKey imports with RSA.import_key, BadKey is 160 bytes that
\* do not.
GoodKey == 1
BadKey == 2
PublicKeys == {GoodKey, BadKey}

\* RSA.import_key(public_key) returns (TRUE) or raises ValueError (FALSE).
Importable(public_key) == public_key = GoodKey

\* PKCS1_OAEP encryption of aes_key under public_key.
Wrap(public_key, aes_key) == <<"wrapped", public_key, aes_key>>

\* Symbols of a name field.
NUL == "NUL"
BadByte == "xFF"
Letters == {"a", "b"}
Digits == {"1"}

\* An attribute no handler has assigned yet (username, filename): reading it
\* raises AttributeError.
NoAttr == <<"<unset>">>

\* The name fields requests carry.
RawNames == {<<"a">>, <<"b">>, <<"_">>}

\* Ciphertexts: full 16-byte blocks followed by tail bytes (0..15).
Ct(n, t) == [blocks |-> [i \in 1..n |-> "c"], tail |-> t]
CipherTexts == {Ct(1, 0)}
ContentSizes == {5, 17}

CtBytes(ct) == Len(ct.blocks) * AES_KEY_SIZE + ct.tail

\* AES.new(key, MODE_CBC, IV=bytes(16)).decrypt(block), one block.
Dec(key, block) == <<key, block>>

---------------------------------------------------------------------------
\* The CRC-32 implementation (memcrc and its table). A 32-bit value is the
\* pair <<high 16 bits, low 16 bits>>.

\* crctab: the 256 table entries, crctab[i + 1] here for crctab[i] there.
crctab ==
    <<
      <<0, 0>>, <<1217, 7607>>, <<2434, 15214>>, <<3395, 9945>>,
      <<4868, 30428>>, <<6085, 27499>>, <<6790, 19890>>, <<7751, 20485>>,
      <<9736, 60856>>, <<8905, 61455>>, <<12170, 54998>>, <<11083, 52065>>,
      <<13580, 39780>>, <<12749, 34515>>, <<15502, 40970>>, <<14415, 48573>>,
      <<19473, 56176>>, <<18640, 50887>>, <<17811, 57374>>, <<16722, 64937>>,
      <<24341, 44460>>, <<23508, 45083>>, <<22167, 38594>>, <<21078, 35701>>,
      <<27161, 14024>>, <<28376, 11135>>, <<25499, 3494>>, <<26458, 4113>>,
      <<31005, 16404>>, <<32220, 23971>>, <<28831, 31610>>, <<29790, 26317>>,
      <<38947, 46816>>, <<40162, 43863>>, <<37281, 36238>>, <<38240, 36921>>,
      <<35623, 49212>>, <<36838, 56715>>, <<33445, 64338>>, <<34404, 59109>>,
      <<48683, 23384>>, <<47850, 18159>>, <<47017, 24630>>, <<45928, 32129>>,
      <<44335, 11652>>, <<43502, 12339>>, <<42157, 5866>>, <<41068, 2909>>,
      <<54322, 28048>>, <<53491, 28711>>, <<56752, 22270>>, <<55665, 19273>>,
      <<50998, 6988>>, <<50167, 1787>>, <<52916, 8226>>, <<51829, 15765>>,
      <<62010, 32808>>, <<63227, 40351>>, <<64440, 47942>>, <<65401, 42737>>,
      <<57662, 63220>>, <<58879, 60227>>, <<59580, 52634>>, <<60541, 53293>>,
      <<13446, 28791>>, <<12359, 28096>>, <<15620, 19225>>, <<14789, 22190>>,
      <<10114, 1707>>, <<9027, 6940>>, <<11776, 15813>>, <<10945, 8306>>,
      <<4750, 40399>>, <<5711, 32888>>, <<6924, 42657>>, <<8141, 47894>>,
      <<394, 60179>>, <<1355, 63140>>, <<2056, 53373>>, <<3273, 52682>>,
      <<30871, 43783>>, <<31830, 46768>>, <<28949, 36969>>, <<30164, 36318>>,
      <<27539, 56795>>, <<28498, 49260>>, <<25105, 59061>>, <<26320, 64258>>,
      <<24223, 18111>>, <<23134, 23304>>, <<22301, 32209>>, <<21468, 24678>>,
      <<19867, 12387>>, <<18778, 11732>>, <<17433, 2829>>, <<16600, 5818>>,
      <<44197, 50839>>, <<43108, 56096>>, <<42279, 65017>>, <<41446, 57422>>,
      <<49057, 45131>>, <<47968, 44540>>, <<46627, 35621>>, <<45794, 38546>>,
      <<35501, 11055>>, <<36460, 13976>>, <<33583, 4161>>, <<34798, 3574>>,
      <<39337, 24051>>, <<40296, 16452>>, <<36907, 26269>>, <<38122, 31530>>,
      <<57524, 7655>>, <<58485, 80>>, <<59702, 9865>>, <<60919, 15166>>,
      <<62384, 27451>>, <<63345, 30348>>, <<64050, 20565>>, <<65267, 19938>>,
      <<50876, 61535>>, <<49789, 60904>>, <<53054, 52017>>, <<52223, 54918>>,
      <<54712, 34435>>, <<53625, 39732>>, <<56378, 48621>>, <<55547, 41050>>,
      <<26892, 57582>>, <<28109, 64857>>, <<24718, 56192>>, <<25679, 50743>>,
      <<31240, 38450>>, <<32457, 35717>>, <<29578, 44380>>, <<30539, 45291>>,
      <<20228, 3414>>, <<19397, 4321>>, <<18054, 13880>>, <<16967, 11151>>,
      <<23552, 31626>>, <<22721, 26173>>, <<21890, 16612>>, <<20803, 23891>>,
      <<9501, 15262>>, <<8668, 9769>>, <<11423, 240>>, <<10334, 7495>>,
      <<13849, 19778>>, <<13016, 20725>>, <<16283, 30252>>, <<15194, 27547>>,
      <<789, 54822>>, <<2004, 52113>>, <<2711, 60744>>, <<3670, 61695>>,
      <<4113, 41210>>, <<5328, 48461>>, <<6547, 39828>>, <<7506, 34339>>,
      <<61743, 22030>>, <<62958, 19385>>, <<63661, 28000>>, <<64620, 28887>>,
      <<57899, 8402>>, <<59114, 15717>>, <<60329, 7100>>, <<61288, 1547>>,
      <<55079, 48054>>, <<54246, 42497>>, <<56997, 32984>>, <<55908, 40303>>,
      <<50211, 52586>>, <<49378, 53469>>, <<52641, 62980>>, <<51552, 60339>>,
      <<48446, 36222>>, <<47615, 37065>>, <<46268, 46608>>, <<45181, 43943>>,
      <<44602, 64418>>, <<43771, 58901>>, <<42936, 49356>>, <<41849, 56699>>,
      <<39734, 24774>>, <<40951, 32113>>, <<37556, 23464>>, <<38517, 17951>>,
      <<34866, 5658>>, <<36083, 2989>>, <<33200, 11636>>, <<34161, 12483>>,
      <<23946, 37017>>, <<22859, 36142>>, <<21512, 44023>>, <<20681, 46656>>,
      <<20110, 58949>>, <<19023, 64498>>, <<18188, 56619>>, <<17357, 49308>>,
      <<31618, 32033>>, <<32579, 24726>>, <<29184, 17999>>, <<30401, 23544>>,
      <<26758, 3069>>, <<27719, 5706>>, <<24836, 12435>>, <<26053, 11556>>,
      <<4507, 19433>>, <<5466, 22110>>, <<6169, 28807>>, <<7384, 27952>>,
      <<671, 15669>>, <<1630, 8322>>, <<2845, 1627>>, <<4060, 7148>>,
      <<14227, 42577>>, <<13138, 48102>>, <<15889, 40255>>, <<15056, 32904>>,
      <<9367, 53389>>, <<8278, 52538>>, <<11541, 60387>>, <<10708, 63060>>,
      <<50601, 9849>>, <<49512, 15310>>, <<52267, 7447>>, <<51434, 160>>,
      <<54957, 20645>>, <<53868, 19730>>, <<57135, 27595>>, <<56302, 30332>>,
      <<58273, 52161>>, <<59232, 54902>>, <<59939, 61615>>, <<61154, 60696>>,
      <<61605, 48413>>, <<62564, 41130>>, <<63783, 34419>>, <<64998, 39876>>,
      <<35256, 64777>>, <<36217, 57534>>, <<32826, 50791>>, <<34043, 56272>>,
      <<39612, 35797>>, <<40573, 38498>>, <<37694, 45243>>, <<38911, 44300>>,
      <<44976, 4273>>, <<43889, 3334>>, <<42546, 11231>>, <<41715, 13928>>,
      <<48308, 26221>>, <<47221, 31706>>, <<46390, 23811>>, <<45559, 16564>>
    >>

\* The operator ^ on non-negative ints, and on 32-bit values.
RECURSIVE XOR(_, _)
XOR(x, y) ==
    IF x = 0 THEN y
    ELSE IF y = 0 THEN x
    ELSE (((x % 2) + (y % 2)) % 2) + 2 * XOR(x \div 2, y \div 2)

XOR32(v, w) == <<XOR(v[1], w[1]), XOR(v[2], w[2])>>

\* s << 8 without UNSIGNED: the bits beyond the 32 are kept.
UNSIGNED_shl8_unmasked(w) == <<w[1] * 256 + (w[2] \div 256), (w[2] % 256) * 256>>

\* UNSIGNED(s << 8): the low 24 bits of s, shifted left by 8.
UNSIGNED_shl8(w) == <<(w[1] % 256) * 256 + (w[2] \div 256), (w[2] % 256) * 256>>

\* s >> 24
shr24(w) == w[1] \div 256

\* for_body with the table index cut to 7 bits.
for_body_masked(acc, ch) ==
    LET tabidx == XOR(shr24(acc), ch) % 128
    IN XOR32(UNSIGNED_shl8(acc), crctab[tabidx + 1])

\* The body of `for ch in b`: tabidx = (s >> 24) ^ ch;
\* s = UNSIGNED((s << 8)) ^ crctab[tabidx].
for_body(acc, ch) ==
    LET tabidx == XOR(shr24(acc), ch)
    IN XOR32(UNSIGNED_shl8(acc), crctab[tabidx + 1])

\* while_body that folds nothing of the length in.
while_body_nolength(len, acc) == [n |-> len \div 256, s |-> acc]

\* The body of `while n`: c = n & 0o377; n = n >> 8;
\* s = UNSIGNED(s << 8) ^ crctab[(s >> 24) ^ c].
while_body(len, acc) ==
    LET c == len % 256
    IN [n |-> len \div 256,
        s |-> XOR32(UNSIGNED_shl8(acc), crctab[XOR(shr24(acc), c) + 1])]

\* The values s takes: 32 bits.
Word32 == (0..65535) \X (0..65535)

\* The iterations of the for loop for the bytes b[lo..hi], in order (the
\* first half of them, then the second, s being a 32-bit value in between).
RECURSIVE for_loop(_, _, _, _)
for_loop(b, lo, hi, acc) ==
    IF lo > hi THEN acc
    ELSE IF lo = hi THEN for_body(acc, b[lo])
    ELSE LET mid == (lo + hi) \div 2
             first == for_loop(b, lo, mid, acc)
         IN CASE first \in Word32 -> for_loop(b, mid + 1, hi, first)

\* The while loop.
RECURSIVE while_loop(_, _)
while_loop(len, acc) ==
    IF len = 0 THEN acc
    ELSE while_loop(while_body(len, acc).n, while_body(len, acc).s)

\* return UNSIGNED(~s): every bit of the 32 inverted.
complement(acc) == <<65535 - acc[1], 65535 - acc[2]>>

\* memcrc(b)
memcrc(b) == complement(while_loop(Len(b), for_loop(b, 1, Len(b), <<0, 0>>)))

---------------------------------------------------------------------------
\* Client._get_string_from_bytes: the bytes before the first NUL, decoded.
RECURSIVE SplitNul(_)
SplitNul(raw) ==
    IF raw = <<>> \/ Head(raw) = NUL THEN <<>>
    ELSE <<Head(raw)>> \o SplitNul(Tail(raw))

\* str(..., "utf-8") raises UnicodeDecodeError on a byte that is no UTF-8.
DecodeOk(raw) == \A i \in 1..Len(SplitNul(raw)) : SplitNul(raw)[i] # BadByte

_get_string_from_bytes(raw) == SplitNul(raw)

---------------------------------------------------------------------------
\* sqlite3 comparison: values of different storage classes are never equal.
Text(v) == [cls |-> "TEXT", v |-> v]
Blob(v) == [cls |-> "BLOB", v |-> v]
SqlEq(a, b) == a.cls = b.cls /\ a.v = b.v

\* DatabaseManager._create_tables: both tables exist and are empty. The
\* clients table is keyed by id (PRIMARY KEY); the files table has no key and
\* is a bag of rows; saved maps a path to the content written there.
_create_tables ==
    [clients |-> [i \in {} |-> 0], files |-> EmptyBag, saved |-> [p \in {} |-> 0]]

\* DatabaseManager._validate_username
_validate_username(username) ==
    \A i \in 1..Len(username) : username[i] \in Letters \/ username[i] = " "

\* DatabaseManager._validate_filename
_validate_filename(filename) ==
    \A i \in 1..Len(filename) :
        \/ filename[i] \in Letters \cup Digits
        \/ filename[i] \in {" ", ".", "/"}

\* DatabaseManager.get_client_by_name: the matching rows (rows[0] is taken by
\* the caller; {} is the empty list).
get_client_by_name(d, username) ==
    {i \in DOMAIN d.clients : d.clients[i].name = username}

\* DatabaseManager.get_client_by_id
get_client_by_id(d, client_id) == {i \in DOMAIN d.clients : i = client_id}

\* DatabaseManager.create_new_client, after the username was validated and
\* client_id drawn; the INSERT raises IntegrityError on an id already there.
create_new_client(d, username, client_id) ==
    [d EXCEPT !.clients =
        [i \in DOMAIN d.clients \cup {client_id} |->
            IF i = client_id
            THEN [name |-> username, public_key |-> EmptyBytes, aes_key |-> EmptyBytes]
            ELSE d.clients[i]]]

\* DatabaseManager.update_public_key
update_public_key(d, client_id, public_key) ==
    [d EXCEPT !.clients =
        [i \in DOMAIN d.clients |->
            IF i = client_id THEN [d.clients[i] EXCEPT !.public_key = public_key]
            ELSE d.clients[i]]]

\* DatabaseManager.update_aes_key
update_aes_key(d, client_id, aes_key) ==
    [d EXCEPT !.clients =
        [i \in DOMAIN d.clients |->
            IF i = client_id THEN [d.clients[i] EXCEPT !.aes_key = aes_key]
            ELSE d.clients[i]]]

\* DatabaseManager._id_to_path
_id_to_path(file_id, filename) == <<file_id, filename>>

\* DatabaseManager.insert_unvalidated_file, after the filename was validated:
\* the content is written to the path and a row with verified = 0 inserted.
insert_unvalidated_file(d, filename, file_content, file_id) ==
    LET path == _id_to_path(file_id, filename)
        row == [id |-> file_id, file_name |-> filename, verified |-> 0]
    IN [d EXCEPT
          !.saved = [p \in DOMAIN d.saved \cup {path} |->
                        IF p = path THEN file_content ELSE d.saved[p]],
          !.files = d.files (+) SetToBag({row})]

\* A WHERE clause that selects the rows of the identity: id = ?.
ValidWhere_byid(row, file_id) == SqlEq(Blob(row.id), Blob(file_id))

\* The WHERE clause of set_file_to_valid: file_name = ?, bound to file_id.
ValidWhere(row, file_id) == SqlEq(Text(row.file_name), Blob(file_id))

\* DatabaseManager.set_file_to_valid: UPDATE files SET verified = 1 WHERE ...
set_file_to_valid(d, file_id) ==
    LET Upd(r) == IF ValidWhere(r, file_id) THEN [r EXCEPT !.verified = 1] ELSE r
        rows == BagToSet(d.files)
        Cnt(r) == IF r \in rows THEN d.files[r] ELSE 0
        Unv(t) == [t EXCEPT !.verified = 0]
    IN [d EXCEPT !.files =
          [t \in {Upd(r) : r \in rows} |->
              (IF Upd(t) = t THEN Cnt(t) ELSE 0)
              + (IF t.verified = 1 /\ ValidWhere(Unv(t), file_id) THEN Cnt(Unv(t)) ELSE 0)]]

---------------------------------------------------------------------------
\* Responses (the classes of the responses module the handlers construct).
RegistrationSuccessful(client_id) ==
    [kind |-> "RegistrationSuccessful", client_id |-> client_id]
RegistrationFailed == [kind |-> "RegistrationFailed"]
PublicKeyReceived(client_id, enc_aes_key) ==
    [kind |-> "PublicKeyReceived", client_id |-> client_id, enc_aes_key |-> enc_aes_key]
FileReceived(client_id, content_size, filename, file_content) ==
    [kind |-> "FileReceived", client_id |-> client_id, content_size |-> content_size,
     filename |-> filename, crc_of |-> file_content]
GenericAck(client_id) == [kind |-> "GenericAck", client_id |-> client_id]
LoginSuccessful(client_id, enc_aes_key) ==
    [kind |-> "LoginSuccessful", client_id |-> client_id, enc_aes_key |-> enc_aes_key]
LoginFailed(client_id) == [kind |-> "LoginFailed", client_id |-> client_id]
GenericFailure == [kind |-> "GenericFailure"]

---------------------------------------------------------------------------
\* A handler's result: it returned (err = "none") or raised err, leaving
\* client c and database d, having sent the responses o.
Ok(c, d, o) == [c |-> c, d |-> d, out |-> o, err |-> "none"]
Raise(c, d, e) == [c |-> c, d |-> d, out |-> <<>>, err |-> e]

\* Client.__init__
NewClient ==
    [client_id |-> ZeroId, username |-> NoAttr, filename |-> NoAttr,
     aes_key |-> EmptyBytes, awaiting_file |-> FALSE, active |-> TRUE]

\* _handle_registration without the look-up of the username.
_handle_registration_nolookup(c, d, request, rnd_id) ==
    IF c.awaiting_file THEN Raise(c, d, "got registration message in file phase")
    ELSE IF request.payload_size # MAX_USER_NAME_LEN
    THEN Raise(c, d, "wrong payload size in registration")
    ELSE IF ~DecodeOk(request.name) THEN Raise(c, d, "UnicodeDecodeError")
    ELSE LET username == _get_string_from_bytes(request.name) IN
    IF ~_validate_username(username) THEN Raise(c, d, "Invalid username.")
    ELSE IF rnd_id \in DOMAIN d.clients THEN Raise(c, d, "IntegrityError")
    ELSE LET d2 == create_new_client(d, username, rnd_id)
             c2 == [c EXCEPT !.username = username, !.client_id = rnd_id]
         IN Ok(c2, d2, <<RegistrationSuccessful(c2.client_id)>>)

\* _handle_registration that looks the session's identity up instead of the
\* username.
_handle_registration_idlookup(c, d, request, rnd_id) ==
    IF c.awaiting_file THEN Raise(c, d, "got registration message in file phase")
    ELSE IF request.payload_size # MAX_USER_NAME_LEN
    THEN Raise(c, d, "wrong payload size in registration")
    ELSE IF ~DecodeOk(request.name) THEN Raise(c, d, "UnicodeDecodeError")
    ELSE LET username == _get_string_from_bytes(request.name) IN
    IF ~_validate_username(username) THEN Raise(c, d, "Invalid username.")
    ELSE IF get_client_by_id(d, c.client_id) # {} THEN Ok(c, d, <<RegistrationFailed>>)
    ELSE IF rnd_id \in DOMAIN d.clients THEN Raise(c, d, "IntegrityError")
    ELSE LET d2 == create_new_client(d, username, rnd_id)
             c2 == [c EXCEPT !.username = username, !.client_id = rnd_id]
         IN Ok(c2, d2, <<RegistrationSuccessful(c2.client_id)>>)

\* _handle_registration that leaves the session's identity as it was.
_handle_registration_unbound(c, d, request, rnd_id) ==
    IF c.awaiting_file THEN Raise(c, d, "got registration message in file phase")
    ELSE IF request.payload_size # MAX_USER_NAME_LEN
    THEN Raise(c, d, "wrong payload size in registration")
    ELSE IF ~DecodeOk(request.name) THEN Raise(c, d, "UnicodeDecodeError")
    ELSE LET username == _get_string_from_bytes(request.name) IN
    IF ~_validate_username(username) THEN Raise(c, d, "Invalid username.")
    ELSE IF get_client_by_name(d, username) # {} THEN Ok(c, d, <<RegistrationFailed>>)
    ELSE IF rnd_id \in DOMAIN d.clients THEN Raise(c, d, "IntegrityError")
    ELSE LET d2 == create_new_client(d, username, rnd_id)
             c2 == [c EXCEPT !.username = username]
         IN Ok(c2, d2, <<RegistrationSuccessful(rnd_id)>>)

\* Client._handle_registration; rnd_id is os.urandom(CLIENT_ID_LEN).
_handle_registration(c, d, request, rnd_id) ==
    IF c.awaiting_file THEN Raise(c, d, "got registration message in file phase")
    ELSE IF request.payload_size # MAX_USER_NAME_LEN
    THEN Raise(c, d, "wrong payload size in registration")
    ELSE IF ~DecodeOk(request.name) THEN Raise(c, d, "UnicodeDecodeError")
    ELSE LET username == _get_string_from_bytes(request.name) IN
    IF ~_validate_username(username) THEN Raise(c, d, "Invalid username.")
    ELSE IF get_client_by_name(d, username) # {} THEN Ok(c, d, <<RegistrationFailed>>)
    ELSE IF rnd_id \in DOMAIN d.clients THEN Raise(c, d, "IntegrityError")
    ELSE LET d2 == create_new_client(d, username, rnd_id)
             c2 == [c EXCEPT !.username = username,
                             !.client_id = CHOOSE i \in get_client_by_name(d2, username) : TRUE]
         IN Ok(c2, d2, <<RegistrationSuccessful(c2.client_id)>>)

\* _get_encrypted_aes_key that keeps the key in the client only, without
\* update_aes_key.
_get_encrypted_aes_key_sessiononly(c, d, public_key, rnd_key) ==
    LET c2 == [c EXCEPT !.aes_key = rnd_key]
    IN IF ~Importable(public_key) THEN Raise(c2, d, "RSA key format is not supported")
       ELSE Ok(c2, d, <<Wrap(public_key, rnd_key)>>)

\* Client._get_encrypted_aes_key; rnd_key is urandom(AES_KEY_SIZE). The key
\* is assigned and stored before the public key is imported.
_get_encrypted_aes_key(c, d, public_key, rnd_key) ==
    LET c2 == [c EXCEPT !.aes_key = rnd_key]
        d2 == update_aes_key(d, c2.client_id, rnd_key)
    IN IF ~Importable(public_key) THEN Raise(c2, d2, "RSA key format is not supported")
       ELSE Ok(c2, d2, <<Wrap(public_key, rnd_key)>>)

\* Client._handle_public_key (with _send_public_key_received)
_handle_public_key(c, d, request, rnd_key) ==
    IF c.awaiting_file THEN Raise(c, d, "got public key message in file phase")
    ELSE IF request.payload_size # MAX_USER_NAME_LEN + PUBLIC_KEY_SIZE
    THEN Raise(c, d, "wrong payload size in public key")
    ELSE IF ~DecodeOk(request.name) THEN Raise(c, d, "UnicodeDecodeError")
    ELSE LET username == _get_string_from_bytes(request.name)
             public_key == request.public_key
    IN
    IF c.client_id # request.client_id
    THEN Raise(c, d, "client_id or username not matching")
    ELSE IF c.username = NoAttr THEN Raise(c, d, "AttributeError")
    ELSE IF c.username # username
    THEN Raise(c, d, "client_id or username not matching")
    ELSE LET d2 == update_public_key(d, c.client_id, public_key)
             k == _get_encrypted_aes_key(c, d2, public_key, rnd_key)
         IN IF k.err # "none" THEN k
            ELSE Ok([k.c EXCEPT !.awaiting_file = TRUE], k.d,
                    <<PublicKeyReceived(k.c.client_id, k.out[1])>>)

\* _handle_login without the check of awaiting_file.
_handle_login_anymode(c, d, request, rnd_key) ==
    IF request.payload_size # MAX_USER_NAME_LEN
    THEN Raise(c, d, "wrong payload size in login")
    ELSE IF \/ get_client_by_id(d, request.client_id) = {}
            \/ d.clients[request.client_id].public_key = EmptyBytes
    THEN Ok(c, d, <<LoginFailed(c.client_id)>>)
    ELSE LET client_row == d.clients[request.client_id] IN
    IF ~DecodeOk(request.name) THEN Raise(c, d, "UnicodeDecodeError")
    ELSE LET username == _get_string_from_bytes(request.name) IN
    IF username # client_row.name THEN Raise(c, d, "client_id or username not matching")
    ELSE LET c2 == [c EXCEPT !.client_id = request.client_id, !.username = username]
             k == _get_encrypted_aes_key(c2, d, client_row.public_key, rnd_key)
         IN IF k.err # "none" THEN k
            ELSE Ok([k.c EXCEPT !.awaiting_file = TRUE], k.d,
                    <<LoginSuccessful(k.c.client_id, k.out[1])>>)

\* _handle_login that binds the identity of the message before it looks the
\* record up.
_handle_login_bindfirst(c, d, request, rnd_key) ==
    IF c.awaiting_file THEN Raise(c, d, "got login message in file phase")
    ELSE IF request.payload_size # MAX_USER_NAME_LEN
    THEN Raise(c, d, "wrong payload size in login")
    ELSE LET c1 == [c EXCEPT !.client_id = request.client_id] IN
    IF \/ get_client_by_id(d, request.client_id) = {}
       \/ d.clients[request.client_id].public_key = EmptyBytes
    THEN Ok(c1, d, <<LoginFailed(c1.client_id)>>)
    ELSE LET client_row == d.clients[request.client_id] IN
    IF ~DecodeOk(request.name) THEN Raise(c, d, "UnicodeDecodeError")
    ELSE LET username == _get_string_from_bytes(request.name) IN
    IF username # client_row.name THEN Raise(c, d, "client_id or username not matching")
    ELSE LET c2 == [c EXCEPT !.client_id = request.client_id, !.username = username]
             k == _get_encrypted_aes_key(c2, d, client_row.public_key, rnd_key)
         IN IF k.err # "none" THEN k
            ELSE Ok([k.c EXCEPT !.awaiting_file = TRUE], k.d,
                    <<LoginSuccessful(k.c.client_id, k.out[1])>>)

\* Client._handle_login (with _send_login_successful, _send_login_failed)
_handle_login(c, d, request, rnd_key) ==
    IF c.awaiting_file THEN Raise(c, d, "got login message in file phase")
    ELSE IF request.payload_size # MAX_USER_NAME_LEN
    THEN Raise(c, d, "wrong payload size in login")
    ELSE IF \/ get_client_by_id(d, request.client_id) = {}
            \/ d.clients[request.client_id].public_key = EmptyBytes
    THEN Ok(c, d, <<LoginFailed(c.client_id)>>)
    ELSE LET client_row == d.clients[request.client_id] IN
    IF ~DecodeOk(request.name) THEN Raise(c, d, "UnicodeDecodeError")
    ELSE LET username == _get_string_from_bytes(request.name) IN
    IF username # client_row.name THEN Raise(c, d, "client_id or username not matching")
    ELSE LET c2 == [c EXCEPT !.client_id = request.client_id, !.username = username]
             k == _get_encrypted_aes_key(c2, d, client_row.public_key, rnd_key)
         IN IF k.err # "none" THEN k
            ELSE Ok([k.c EXCEPT !.awaiting_file = TRUE], k.d,
                    <<LoginSuccessful(k.c.client_id, k.out[1])>>)

\* _handle_file: content_size rounded up to a multiple of AES_KEY_SIZE.
padded_content_size(content_size) ==
    (content_size \div AES_KEY_SIZE) * AES_KEY_SIZE
    + (IF content_size % AES_KEY_SIZE # 0 THEN AES_KEY_SIZE ELSE 0)

\* _decrypt_and_save_file that saves every decrypted block whole, without the
\* cut to content_size.
_decrypt_and_save_file_untruncated(c, d, encrypted_file, content_size) ==
    LET nblocks == Len(encrypted_file)
        blocks == [i \in 1..nblocks |-> Dec(c.aes_key, encrypted_file[i])]
    IN IF nblocks * AES_KEY_SIZE < content_size
       THEN Raise(c, d, "something went wrong decrypting the file")
       ELSE LET file_content == [size |-> nblocks * AES_KEY_SIZE, blocks |-> blocks] IN
            IF ~_validate_filename(c.filename) THEN Raise(c, d, "Invalid filename.")
            ELSE Ok(c, insert_unvalidated_file(d, c.filename, file_content, c.client_id),
                    <<file_content>>)

\* Client._decrypt_and_save_file: one block at a time, each with a zero IV.
_decrypt_and_save_file(c, d, encrypted_file, content_size) ==
    LET nblocks == Len(encrypted_file)
        blocks == [i \in 1..nblocks |-> Dec(c.aes_key, encrypted_file[i])]
    IN IF nblocks * AES_KEY_SIZE < content_size
       THEN Raise(c, d, "something went wrong decrypting the file")
       ELSE LET file_content == [size |-> content_size, blocks |-> blocks] IN
            IF ~_validate_filename(c.filename) THEN Raise(c, d, "Invalid filename.")
            ELSE Ok(c, insert_unvalidated_file(d, c.filename, file_content, c.client_id),
                    <<file_content>>)

\* _handle_file without the comparison of the identities.
_handle_file_anyid(c, d, request) ==
    IF ~c.awaiting_file THEN Raise(c, d, "got file message in login phase")
    ELSE IF request.payload_size <= 4 + MAX_FILE_NAME_LEN
    THEN Raise(c, d, "file message has no file content")
    ELSE LET content_size == request.content_size IN
    IF ~DecodeOk(request.name) THEN Raise(c, d, "UnicodeDecodeError")
    ELSE LET c2 == [c EXCEPT !.filename = _get_string_from_bytes(request.name)]
             taken == IF CtBytes(request.ct) < padded_content_size(content_size)
                      THEN CtBytes(request.ct) ELSE padded_content_size(content_size)
             encrypted_file == SubSeq(request.ct.blocks, 1, taken \div AES_KEY_SIZE)
             r == _decrypt_and_save_file(c2, d, encrypted_file, content_size)
         IN IF r.err # "none" THEN r
            ELSE Ok([r.c EXCEPT !.awaiting_file = FALSE], r.d,
                    <<FileReceived(r.c.client_id, content_size, r.c.filename, r.out[1])>>)

\* Client._handle_file (with _send_file_received)
_handle_file(c, d, request) ==
    IF ~c.awaiting_file THEN Raise(c, d, "got file message in login phase")
    ELSE IF c.client_id # request.client_id THEN Raise(c, d, "client_id not matching")
    ELSE IF request.payload_size <= 4 + MAX_FILE_NAME_LEN
    THEN Raise(c, d, "file message has no file content")
    ELSE LET content_size == request.content_size IN
    IF ~DecodeOk(request.name) THEN Raise(c, d, "UnicodeDecodeError")
    ELSE LET c2 == [c EXCEPT !.filename = _get_string_from_bytes(request.name)]
             \* payload[259 : 259 + padded_content_size], in whole blocks
             taken == IF CtBytes(request.ct) < padded_content_size(content_size)
                      THEN CtBytes(request.ct) ELSE padded_content_size(content_size)
             encrypted_file == SubSeq(request.ct.blocks, 1, taken \div AES_KEY_SIZE)
             r == _decrypt_and_save_file(c2, d, encrypted_file, content_size)
         IN IF r.err # "none" THEN r
            ELSE Ok([r.c EXCEPT !.awaiting_file = FALSE], r.d,
                    <<FileReceived(r.c.client_id, content_size, r.c.filename, r.out[1])>>)

\* _handle_valid_crc without the check of awaiting_file.
_handle_valid_crc_anymode(c, d, request) ==
    IF c.client_id # request.client_id THEN Raise(c, d, "client_id not matching")
    ELSE IF request.payload_size # MAX_FILE_NAME_LEN
    THEN Raise(c, d, "wrong payload size in valid crc")
    ELSE IF ~DecodeOk(request.name) THEN Raise(c, d, "UnicodeDecodeError")
    ELSE IF c.filename = NoAttr THEN Raise(c, d, "AttributeError")
    ELSE IF _get_string_from_bytes(request.name) # c.filename
    THEN Raise(c, d, "filename not matching")
    ELSE Ok(c, set_file_to_valid(d, c.client_id), <<GenericAck(c.client_id)>>)

\* Client._handle_valid_crc
_handle_valid_crc(c, d, request) ==
    IF c.awaiting_file THEN Raise(c, d, "got valid crc message while waiting for file")
    ELSE IF c.client_id # request.client_id THEN Raise(c, d, "client_id not matching")
    ELSE IF request.payload_size # MAX_FILE_NAME_LEN
    THEN Raise(c, d, "wrong payload size in valid crc")
    ELSE IF ~DecodeOk(request.name) THEN Raise(c, d, "UnicodeDecodeError")
    ELSE IF c.filename = NoAttr THEN Raise(c, d, "AttributeError")
    ELSE IF _get_string_from_bytes(request.name) # c.filename
    THEN Raise(c, d, "filename not matching")
    ELSE Ok(c, set_file_to_valid(d, c.client_id), <<GenericAck(c.client_id)>>)

\* _handle_invalid_crc that leaves awaiting_file as it was.
_handle_invalid_crc_nomode(c, d, request) ==
    IF c.client_id # request.client_id THEN Raise(c, d, "client_id not matching")
    ELSE IF request.payload_size # MAX_FILE_NAME_LEN
    THEN Raise(c, d, "wrong payload size in invalid crc")
    ELSE IF ~DecodeOk(request.name) THEN Raise(c, d, "UnicodeDecodeError")
    ELSE IF c.filename = NoAttr THEN Raise(c, d, "AttributeError")
    ELSE IF _get_string_from_bytes(request.name) # c.filename
    THEN Raise(c, d, "filename not matching")
    ELSE Ok(c, d, <<>>)

\* _handle_invalid_crc without the comparison with the pending filename.
_handle_invalid_crc_nofilename(c, d, request) ==
    IF c.client_id # request.client_id THEN Raise(c, d, "client_id not matching")
    ELSE IF request.payload_size # MAX_FILE_NAME_LEN
    THEN Raise(c, d, "wrong payload size in invalid crc")
    ELSE IF ~DecodeOk(request.name) THEN Raise(c, d, "UnicodeDecodeError")
    ELSE Ok([c EXCEPT !.awaiting_file = TRUE], d, <<>>)

\* Client._handle_invalid_crc
_handle_invalid_crc(c, d, request) ==
    IF c.client_id # request.client_id THEN Raise(c, d, "client_id not matching")
    ELSE IF request.payload_size # MAX_FILE_NAME_LEN
    THEN Raise(c, d, "wrong payload size in invalid crc")
    ELSE IF ~DecodeOk(request.name) THEN Raise(c, d, "UnicodeDecodeError")
    ELSE IF c.filename = NoAttr THEN Raise(c, d, "AttributeError")
    ELSE IF _get_string_from_bytes(request.name) # c.filename
    THEN Raise(c, d, "filename not matching")
    ELSE Ok([c EXCEPT !.awaiting_file = TRUE], d, <<>>)

\* _handle_terminate that leaves the client active.
_handle_terminate_stayactive(c, d, request) ==
    IF ~c.awaiting_file THEN Raise(c, d, "got terminate message in login phase")
    ELSE IF c.client_id # request.client_id THEN Raise(c, d, "client_id not matching")
    ELSE IF request.payload_size # MAX_FILE_NAME_LEN
    THEN Raise(c, d, "wrong payload size in terminate")
    ELSE IF ~DecodeOk(request.name) THEN Raise(c, d, "UnicodeDecodeError")
    ELSE IF c.filename = NoAttr THEN Raise(c, d, "AttributeError")
    ELSE IF _get_string_from_bytes(request.name) # c.filename
    THEN Raise(c, d, "filename not matching")
    ELSE Ok(c, d, <<GenericAck(c.client_id)>>)

\* Client._handle_terminate
_handle_terminate(c, d, request) ==
    IF ~c.awaiting_file THEN Raise(c, d, "got terminate message in login phase")
    ELSE IF c.client_id # request.client_id THEN Raise(c, d, "client_id not matching")
    ELSE IF request.payload_size # MAX_FILE_NAME_LEN
    THEN Raise(c, d, "wrong payload size in terminate")
    ELSE IF ~DecodeOk(request.name) THEN Raise(c, d, "UnicodeDecodeError")
    ELSE IF c.filename = NoAttr THEN Raise(c, d, "AttributeError")
    ELSE IF _get_string_from_bytes(request.name) # c.filename
    THEN Raise(c, d, "filename not matching")
    ELSE Ok([c EXCEPT !.active = FALSE], d, <<GenericAck(c.client_id)>>)

\* RequestMessage.__init__ without the comparison of the payload length.
RequestMessage_nolength(request) ==
    IF request.nbytes < REQUEST_MIN_LEN THEN "Invalid request length"
    ELSE "none"

\* RequestMessage.__init__: the buffer holds the 23-byte header and exactly
\* payload_size more bytes, or ValueError is raised.
RequestMessage(request) ==
    IF request.nbytes < REQUEST_MIN_LEN THEN "Invalid request length"
    ELSE IF request.nbytes - REQUEST_MIN_LEN # request.payload_size
    THEN "Invalid payload length"
    ELSE "none"

\* Python values of the two types the match statement compares: the int that
\* struct.unpack puts in request.code and a member of the Enum RequestCode.
PyInt(n) == [type |-> "int", value |-> n]
RequestCodeMember(n) == [type |-> "RequestCode", value |-> n]

\* Python ==: Enum defines no comparison with the value of a member, so an
\* int and a member are never equal.
PyEq(a, b) == a.type = b.type /\ a.value = b.value

\* The match statement of Client.handle_message as written: the subject
\* request.code against the value patterns RequestCode.SIGN_UP, ..., in order;
\* the result is the handler of the first case that compares equal, "_" for
\* the default case.
match_request_code(code) ==
    CASE PyEq(PyInt(code), RequestCodeMember(SIGN_UP)) -> "_handle_registration"
      [] PyEq(PyInt(code), RequestCodeMember(SEND_PUBLIC_KEY)) -> "_handle_public_key"
      [] PyEq(PyInt(code), RequestCodeMember(SIGN_IN)) -> "_handle_login"
      [] PyEq(PyInt(code), RequestCodeMember(SEND_FILE)) -> "_handle_file"
      [] PyEq(PyInt(code), RequestCodeMember(CRC_VALID)) -> "_handle_valid_crc"
      [] PyEq(PyInt(code), RequestCodeMember(CRC_INVALID)) -> "_handle_invalid_crc"
      [] PyEq(PyInt(code), RequestCodeMember(CRC_INVALID_4TH_TIME)) -> "_handle_terminate"
      [] OTHER -> "_"

\* The handler each case of the match statement of Client.handle_message
\* names.
Dispatch(c, d, request, rnd_id, rnd_key) ==
    CASE request.code = SIGN_UP -> _handle_registration(c, d, request, rnd_id)
      [] request.code = SEND_PUBLIC_KEY -> _handle_public_key(c, d, request, rnd_key)
      [] request.code = SIGN_IN -> _handle_login(c, d, request, rnd_key)
      [] request.code = SEND_FILE -> _handle_file(c, d, request)
      [] request.code = CRC_VALID -> _handle_valid_crc(c, d, request)
      [] request.code = CRC_INVALID -> _handle_invalid_crc(c, d, request)
      [] request.code = CRC_INVALID_4TH_TIME -> _handle_terminate(c, d, request)
      [] OTHER -> Raise(c, d, "Invalid request code")

\* Client._send_generic_failure: the response sent by the except clause.
_send_generic_failure == <<GenericFailure>>

\* handle_message whose except clause also deactivates the client.
handle_message_closing(c, d, request, rnd_id, rnd_key) ==
    LET r == IF RequestMessage(request) # "none"
             THEN Raise(c, d, RequestMessage(request))
             ELSE Dispatch(c, d, request, rnd_id, rnd_key)
    IN IF r.err = "none" THEN r
       ELSE [r EXCEPT !.out = r.out \o _send_generic_failure, !.c.active = FALSE]

\* handle_message that sends the generic failure in a finally clause, after a
\* handler that returned too.
handle_message_finally(c, d, request, rnd_id, rnd_key) ==
    LET r == IF RequestMessage(request) # "none"
             THEN Raise(c, d, RequestMessage(request))
             ELSE Dispatch(c, d, request, rnd_id, rnd_key)
    IN [r EXCEPT !.out = r.out \o _send_generic_failure]

\* The try block of Client.handle_message and its except clause, on an
\* active client.
handle_message(c, d, request, rnd_id, rnd_key) ==
    LET r == IF RequestMessage(request) # "none"
             THEN Raise(c, d, RequestMessage(request))
             ELSE Dispatch(c, d, request, rnd_id, rnd_key)
    IN IF r.err = "none" THEN r
       ELSE [r EXCEPT !.out = r.out \o _send_generic_failure]

---------------------------------------------------------------------------
\* Requests.
Req(code, client_id, payload_size, name, public_key, content_size, ct) ==
    [code |-> code, client_id |-> client_id, payload_size |-> payload_size,
     nbytes |-> REQUEST_MIN_LEN + payload_size,
     name |-> name, public_key |-> public_key, content_size |-> content_size, ct |-> ct]

\* Requests with a name payload (SIGN_UP, SIGN_IN, the three CRC messages):
\* the right size with every identity and name, and one a byte short.
NameReqs(code) ==
    {Req(code, i, MAX_USER_NAME_LEN, n, GoodKey, 0, Ct(0, 0)) : i \in Ids, n \in RawNames}
    \cup {Req(code, ZeroId, MAX_USER_NAME_LEN - 1, <<"a">>, GoodKey, 0, Ct(0, 0))}

PublicKeyReqs ==
    {Req(SEND_PUBLIC_KEY, i, MAX_USER_NAME_LEN + PUBLIC_KEY_SIZE, n, k, 0, Ct(0, 0)) :
        i \in Ids, n \in RawNames, k \in PublicKeys}
    \cup {Req(SEND_PUBLIC_KEY, ZeroId, MAX_USER_NAME_LEN, <<"a">>, GoodKey, 0, Ct(0, 0))}

\* SEND_FILE: payload = content_size(4) + filename(255) + ciphertext.
SendFileReqs ==
    {Req(SEND_FILE, i, 4 + MAX_FILE_NAME_LEN + CtBytes(ct), n, GoodKey, cs, ct) :
        i \in Ids, n \in RawNames, cs \in ContentSizes, ct \in CipherTexts}
    \cup {Req(SEND_FILE, i, 4 + MAX_FILE_NAME_LEN, <<"a">>, GoodKey, 0, Ct(0, 0)) : i \in Ids}

\* Buffers RequestMessage rejects, and a code outside RequestCode.
UnknownCode == 1032
BadReqs ==
    {[Req(SIGN_UP, ZeroId, MAX_USER_NAME_LEN, <<"a">>, GoodKey, 0, Ct(0, 0))
        EXCEPT !.nbytes = nb] : nb \in {REQUEST_MIN_LEN - 1, REQUEST_MIN_LEN}}
    \cup {Req(UnknownCode, ZeroId, 0, <<>>, GoodKey, 0, Ct(0, 0))}

NoReq == Req(0, ZeroId, 0, <<>>, GoodKey, 0, Ct(0, 0))

---------------------------------------------------------------------------
\* The state machine.

\* No call of memcrc is running.
NoFrame ==
    [b |-> <<>>, i |-> 0, n |-> 0, s |-> <<0, 0>>, pc |-> "idle", result |-> <<0, 0>>]

Init ==
    /\ sess = <<>>
    /\ db = _create_tables
    /\ last = [sid |-> 0, code |-> NoReq.code, err |-> "none"]
    /\ out = <<>>
    /\ progress = <<>>
    /\ granted = EmptyBag
    /\ admitted = <<>>
    /\ wire = <<>>
    /\ frame = NoFrame

\* A connection is accepted and gets a Client object.
Accept ==
    /\ Len(sess) < MaxSessions
    /\ sess' = Append(sess, NewClient)
    /\ admitted' = Append(admitted, FALSE)
    /\ last' = [sid |-> Len(sess) + 1, code |-> NoReq.code, err |-> "none"]
    /\ out' = <<>>
    /\ UNCHANGED <<db, progress, granted, wire, frame>>

\* The responses say that a SIGN_UP or a SIGN_IN succeeded.
Welcomed(o) ==
    o # <<>> /\ o[1].kind \in {"RegistrationSuccessful", "LoginSuccessful"}

\* Call that keeps the client state per identity instead of per connection:
\* the result is written to every client bound to the identity of client s.
Call_peridentity(s, request, rnd_id, rnd_key, cap) ==
    /\ sess[s].active
    /\ LET r == handle_message(sess[s], db, request, rnd_id, rnd_key) IN
        /\ BagCardinality(r.d.files) <= cap
        /\ sess' = [t \in DOMAIN sess |->
                       IF sess[t].client_id = sess[s].client_id THEN r.c ELSE sess[t]]
        /\ db' = r.d
        /\ last' = [sid |-> s, code |-> request.code, err |-> r.err]
        /\ out' = r.out
        /\ granted' = IF r.out # <<>> /\ r.out[1].kind = "RegistrationSuccessful"
                       THEN granted (+) SetToBag({_get_string_from_bytes(request.name)})
                       ELSE granted
        /\ admitted' = [admitted EXCEPT ![s] = @ \/ Welcomed(r.out)]

\* One call of Client.handle_message on an active client, for one request and
\* one pair of random draws; the files table is capped at cap rows.
Call(s, request, rnd_id, rnd_key, cap) ==
    /\ sess[s].active
    /\ LET r == handle_message(sess[s], db, request, rnd_id, rnd_key) IN
        /\ BagCardinality(r.d.files) <= cap
        /\ sess' = [sess EXCEPT ![s] = r.c]
        /\ db' = r.d
        /\ last' = [sid |-> s, code |-> request.code, err |-> r.err]
        /\ out' = r.out
        /\ granted' = IF r.out # <<>> /\ r.out[1].kind = "RegistrationSuccessful"
                       THEN granted (+) SetToBag({_get_string_from_bytes(request.name)})
                       ELSE granted
        /\ admitted' = [admitted EXCEPT ![s] = @ \/ Welcomed(r.out)]

Handle(s, request, rnd_id, rnd_key) ==
    /\ Call(s, request, rnd_id, rnd_key, MaxFileRows)
    /\ UNCHANGED <<progress, wire, frame>>

\* handle_message on an inactive client with the check of active inside the
\* try block: the except clause answers the RuntimeError with the generic
\* failure.
HandleInactive_answering(s) ==
    /\ ~sess[s].active
    /\ last' = [sid |-> s, code |-> NoReq.code,
                err |-> "got message on inactive client"]
    /\ out' = _send_generic_failure
    /\ UNCHANGED <<sess, db, progress, granted, wire, frame, admitted>>

\* handle_message on a client that is no longer active: RuntimeError, raised
\* before anything is received or sent.
HandleInactive(s) ==
    /\ ~sess[s].active
    /\ last' = [sid |-> s, code |-> NoReq.code,
                err |-> "got message on inactive client"]
    /\ out' = <<>>
    /\ UNCHANGED <<sess, db, progress, granted, wire, frame, admitted>>

Live == 1..Len(sess)

SignUp == \E s \in Live, q \in NameReqs(SIGN_UP), i \in Ids : Handle(s, q, i, 1)
SendPublicKey == \E s \in Live, q \in PublicKeyReqs, k \in AesKeys : Handle(s, q, ZeroId, k)
SignIn == \E s \in Live, q \in NameReqs(SIGN_IN), k \in AesKeys : Handle(s, q, ZeroId, k)
SendFile == \E s \in Live, q \in SendFileReqs : Handle(s, q, ZeroId, 1)
CrcValid == \E s \in Live, q \in NameReqs(CRC_VALID) : Handle(s, q, ZeroId, 1)
CrcInvalid == \E s \in Live, q \in NameReqs(CRC_INVALID) : Handle(s, q, ZeroId, 1)
CrcInvalid4thTime ==
    \E s \in Live, q \in NameReqs(CRC_INVALID_4TH_TIME) : Handle(s, q, ZeroId, 1)
BadRequest == \E s \in Live, q \in BadReqs : Handle(s, q, ZeroId, 1)
Inactive == \E s \in Live : HandleInactive(s)

Next ==
    \/ Accept
    \/ SignUp
    \/ SendPublicKey
    \/ SignIn
    \/ SendFile
    \/ CrcValid
    \/ CrcInvalid
    \/ CrcInvalid4thTime
    \/ BadRequest
    \/ Inactive

Spec == Init /\ [][Next]_vars

---------------------------------------------------------------------------
\* The retry protocol of a client: after the handshake it sends the file, and
\* on a checksum mismatch CRC_INVALID and the file again, up to three times;
\* the fourth mismatch is reported with CRC_INVALID_4TH_TIME.
RetrySequence ==
    <<SEND_FILE, CRC_INVALID, SEND_FILE, CRC_INVALID, SEND_FILE, CRC_INVALID,
      SEND_FILE, CRC_INVALID_4TH_TIME>>

\* How far the messages handled on a session follow RetrySequence, all with
\* the identity the session is bound to and one filename f; the messages
\* before the last one count when the server accepted them (err = "none").
Advance(p, c, request, err) ==
    LET name == _get_string_from_bytes(request.name)
        mine == request.client_id = c.client_id
        follows ==
            /\ p.n < Len(RetrySequence)
            /\ request.code = RetrySequence[p.n + 1]
            /\ mine
            /\ p.n > 0 => name = p.f
            /\ p.n + 1 < Len(RetrySequence) => err = "none"
    IN IF follows THEN [n |-> p.n + 1, f |-> name]
       ELSE IF request.code = SEND_FILE /\ mine /\ err = "none"
       THEN [n |-> 1, f |-> name]
       ELSE [n |-> 0, f |-> NoAttr]

RetryName == <<"a">>
RetryFileReqs ==
    {q \in SendFileReqs :
        q.name = RetryName /\ q.content_size = 5 /\ q.payload_size > 4 + MAX_FILE_NAME_LEN}
RetryNameReqs(code) ==
    {q \in NameReqs(code) : q.name = RetryName /\ q.payload_size = MAX_FILE_NAME_LEN}

AcceptRetry ==
    /\ Len(sess) < MaxSessions
    /\ sess' = Append(sess, NewClient)
    /\ admitted' = Append(admitted, FALSE)
    /\ progress' = Append(progress, [n |-> 0, f |-> NoAttr])
    /\ last' = [sid |-> Len(sess) + 1, code |-> NoReq.code, err |-> "none"]
    /\ out' = <<>>
    /\ UNCHANGED <<db, granted, wire, frame>>

HandleRetry(s, request, rnd_id, rnd_key) ==
    /\ Call(s, request, rnd_id, rnd_key, MaxRetryRows)
    /\ progress' = [progress EXCEPT ![s] = Advance(progress[s], sess[s], request, last'.err)]
    /\ UNCHANGED <<wire, frame>>

SignUpRetry ==
    \E s \in Live, q \in RetryNameReqs(SIGN_UP), i \in Ids : HandleRetry(s, q, i, 1)
SendPublicKeyRetry ==
    \E s \in Live, q \in PublicKeyReqs, k \in AesKeys :
        /\ q.name = RetryName /\ q.public_key = GoodKey
        /\ HandleRetry(s, q, ZeroId, k)
SendFileRetry == \E s \in Live, q \in RetryFileReqs : HandleRetry(s, q, ZeroId, 1)
CrcInvalidRetry ==
    \E s \in Live, q \in RetryNameReqs(CRC_INVALID) : HandleRetry(s, q, ZeroId, 1)
CrcInvalid4thTimeRetry ==
    \E s \in Live, q \in RetryNameReqs(CRC_INVALID_4TH_TIME) : HandleRetry(s, q, ZeroId, 1)

NextRetry ==
    \/ AcceptRetry
    \/ SignUpRetry
    \/ SendPublicKeyRetry
    \/ SendFileRetry
    \/ CrcInvalidRetry
    \/ CrcInvalid4thTimeRetry
    \/ Inactive

SpecRetry == Init /\ [][NextRetry]_vars

---------------------------------------------------------------------------
\* Several connections: every message is one call of handle_message on one
\* client, and the calls of different clients interleave in any order (the
\* handlers run to completion; the clients share the DatabaseManager).
MaxPeers == 2

\* The messages a client sends in the handshake and the transfer, with the
\* sizes the handlers expect; every client uses the same username, so that
\* the clients contend for it.
PeerName == <<"a">>
PeerNameReqs(code) ==
    {q \in NameReqs(code) : q.name = PeerName /\ q.payload_size = MAX_USER_NAME_LEN}
PeerKeyReqs ==
    {q \in PublicKeyReqs :
        /\ q.name = PeerName
        /\ q.public_key = GoodKey
        /\ q.payload_size = MAX_USER_NAME_LEN + PUBLIC_KEY_SIZE}
PeerFileReqs ==
    {q \in SendFileReqs : q.name = PeerName /\ q.content_size = 5 /\ q.ct = Ct(1, 0)}

AcceptPeer ==
    /\ Len(sess) < MaxPeers
    /\ sess' = Append(sess, NewClient)
    /\ admitted' = Append(admitted, FALSE)
    /\ last' = [sid |-> Len(sess) + 1, code |-> NoReq.code, err |-> "none"]
    /\ out' = <<>>
    /\ UNCHANGED <<db, progress, granted, wire, frame>>

HandlePeer(s, request, rnd_id, rnd_key) ==
    /\ Call(s, request, rnd_id, rnd_key, 1)
    /\ UNCHANGED <<progress, wire, frame>>

SignUpPeer == \E s \in Live, q \in PeerNameReqs(SIGN_UP), i \in Ids : HandlePeer(s, q, i, 1)
SendPublicKeyPeer ==
    \E s \in Live, q \in PeerKeyReqs, k \in AesKeys : HandlePeer(s, q, ZeroId, k)
SignInPeer == \E s \in Live, q \in PeerNameReqs(SIGN_IN), k \in AesKeys : HandlePeer(s, q, ZeroId, k)
SendFilePeer == \E s \in Live, q \in PeerFileReqs : HandlePeer(s, q, ZeroId, 1)
CrcInvalidPeer == \E s \in Live, q \in PeerNameReqs(CRC_INVALID) : HandlePeer(s, q, ZeroId, 1)
CrcInvalid4thTimePeer ==
    \E s \in Live, q \in PeerNameReqs(CRC_INVALID_4TH_TIME) : HandlePeer(s, q, ZeroId, 1)

NextPeers ==
    \/ AcceptPeer
    \/ SignUpPeer
    \/ SendPublicKeyPeer
    \/ SignInPeer
    \/ SendFilePeer
    \/ CrcInvalidPeer
    \/ CrcInvalid4thTimePeer
    \/ Inactive

SpecPeers == Init /\ [][NextPeers]_vars

---------------------------------------------------------------------------
\* Several clients whose key exchange can fail: the same messages, with a
\* SEND_PUBLIC_KEY that carries either an importable key or 160 bytes that do
\* not import.
AnyKeyReqs ==
    {q \in PublicKeyReqs :
        q.name = PeerName /\ q.payload_size = MAX_USER_NAME_LEN + PUBLIC_KEY_SIZE}

SendAnyKeyPeer ==
    \E s \in Live, q \in AnyKeyReqs, k \in AesKeys : HandlePeer(s, q, ZeroId, k)

NextKeys ==
    \/ AcceptPeer
    \/ SignUpPeer
    \/ SendAnyKeyPeer
    \/ SignInPeer
    \/ SendFilePeer
    \/ CrcInvalidPeer
    \/ CrcInvalid4thTimePeer
    \/ Inactive

SpecKeys == Init /\ [][NextKeys]_vars

---------------------------------------------------------------------------
\* Several clients of one identity whose session keys differ: the same
\* messages, with urandom(AES_KEY_SIZE) drawn from one key more than AesKeys,
\* so that two key exchanges need not draw the same key.
SessionKeys == 1..(NumKeys + 1)

SendPublicKeyTwin ==
    \E s \in Live, q \in PeerKeyReqs, k \in SessionKeys : HandlePeer(s, q, ZeroId, k)
SignInTwin ==
    \E s \in Live, q \in PeerNameReqs(SIGN_IN), k \in SessionKeys : HandlePeer(s, q, ZeroId, k)

NextTwins ==
    \/ AcceptPeer
    \/ SignUpPeer
    \/ SendPublicKeyTwin
    \/ SignInTwin
    \/ SendFilePeer
    \/ CrcInvalidPeer
    \/ CrcInvalid4thTimePeer
    \/ Inactive

SpecTwins == Init /\ [][NextTwins]_vars

---------------------------------------------------------------------------
\* The byte stream of a connection: the peer sends one message at a time, and
\* each call of handle_message reads what sock.recv returns, the next bytes
\* of the stream, as many as have arrived.

\* Nothing of a message is in flight on the connection.
NoWire == [msg |-> NoReq, off |-> 0, reads |-> 0, handled |-> 0]

\* The messages the peer sends, each of the size its handler expects.
StreamName == <<"a">>
StreamReqs ==
    {q \in NameReqs(SIGN_UP) \cup NameReqs(SIGN_IN) \cup NameReqs(CRC_VALID)
           \cup NameReqs(CRC_INVALID) \cup NameReqs(CRC_INVALID_4TH_TIME) :
        q.name = StreamName /\ q.payload_size = MAX_USER_NAME_LEN}
    \cup {q \in PublicKeyReqs :
            /\ q.name = StreamName
            /\ q.public_key = GoodKey
            /\ q.payload_size = MAX_USER_NAME_LEN + PUBLIC_KEY_SIZE}
    \cup {q \in SendFileReqs :
            q.name = StreamName /\ q.content_size = 5 /\ q.ct = Ct(1, 0)}

\* The bytes of a message on the stream: the header and the payload.
Total(q) == REQUEST_MIN_LEN + q.payload_size

\* The numbers of bytes a recv returns before the rest of the message has
\* arrived; a message whose payload is a name field is read in such pieces
\* (all its bytes after the name are zero), the others arrive whole.
ReadSizes == {10, REQUEST_MIN_LEN, 150}
Splits(w) ==
    {Total(w.msg) - w.off}
    \cup (IF w.msg.code \in {SEND_PUBLIC_KEY, SEND_FILE} THEN {}
          ELSE {n \in ReadSizes : n < Total(w.msg) - w.off})

\* The buffer sock.recv returns for the next n bytes of the stream, as
\* RequestMessage reads it: from the start of the message its own header
\* fields; from inside the message the zero bytes of the padding, which read
\* as code 0 and payload_size 0.
recv(w, n) ==
    IF w.off = 0 THEN [w.msg EXCEPT !.nbytes = n]
    ELSE [Req(0, ZeroId, 0, <<>>, GoodKey, 0, Ct(0, 0)) EXCEPT !.nbytes = n]

AcceptStream ==
    /\ Len(sess) < MaxSessions
    /\ sess' = Append(sess, NewClient)
    /\ admitted' = Append(admitted, FALSE)
    /\ wire' = Append(wire, NoWire)
    /\ last' = [sid |-> Len(sess) + 1, code |-> NoReq.code, err |-> "none"]
    /\ out' = <<>>
    /\ UNCHANGED <<db, progress, granted, frame>>

\* The peer starts to send a message once the last one was read to its end.
SendStream ==
    \E s \in Live, q \in StreamReqs :
        /\ wire[s].off = Total(wire[s].msg) \/ wire[s].msg = NoReq
        /\ wire' = [wire EXCEPT ![s] = [msg |-> q, off |-> 0, reads |-> 0, handled |-> 0]]
        /\ UNCHANGED <<sess, db, last, out, progress, granted, frame, admitted>>

\* The socket is readable: handle_message runs once on what recv returns.
RecvStream ==
    \E s \in Live, i \in Ids, k \in AesKeys :
        /\ wire[s].msg # NoReq
        /\ wire[s].off < Total(wire[s].msg)
        /\ \E n \in Splits(wire[s]) :
              /\ Call(s, recv(wire[s], n), i, k, MaxFileRows)
              /\ wire' = [wire EXCEPT ![s] =
                    [@ EXCEPT !.off = @ + n,
                              !.reads = @ + 1,
                              !.handled = @ + (IF /\ wire[s].off = 0
                                                  /\ RequestMessage(recv(wire[s], n)) = "none"
                                               THEN 1 ELSE 0)]]
        /\ UNCHANGED <<progress, frame>>

NextStream ==
    \/ AcceptStream
    \/ SendStream
    \/ RecvStream
    \/ Inactive

SpecStream == Init /\ [][NextStream]_vars

---------------------------------------------------------------------------
\* A call of memcrc, one loop iteration per step, for each input of a bounded
\* set of byte strings.
MaxCrcLen == 3
CrcBytes == {0, 1, 128, 255}

\* The byte strings of up to MaxCrcLen bytes, and two whose length takes two
\* bytes.
CrcInputs ==
    UNION {[1..k -> CrcBytes] : k \in 0..MaxCrcLen}
    \cup {[j \in 1..256 |-> 0], [j \in 1..300 |-> IF j = 1 THEN 1 ELSE 255]}

\* n = len(b); c = s = 0
InitCrc ==
    /\ sess = <<>>
    /\ db = _create_tables
    /\ last = [sid |-> 0, code |-> NoReq.code, err |-> "none"]
    /\ out = <<>>
    /\ progress = <<>>
    /\ granted = EmptyBag
    /\ admitted = <<>>
    /\ wire = <<>>
    /\ frame \in {[b |-> input, i |-> 0, n |-> Len(input), s |-> <<0, 0>>, pc |-> "for",
                     result |-> <<0, 0>>] : input \in CrcInputs}

ForStep ==
    /\ frame.pc = "for"
    /\ frame.i < Len(frame.b)
    /\ frame' = [frame EXCEPT !.s = for_body(frame.s, frame.b[frame.i + 1]),
                              !.i = frame.i + 1]
    /\ UNCHANGED <<sess, db, last, out, progress, granted, wire, admitted>>

ForExit ==
    /\ frame.pc = "for"
    /\ frame.i = Len(frame.b)
    /\ frame' = [frame EXCEPT !.pc = "while"]
    /\ UNCHANGED <<sess, db, last, out, progress, granted, wire, admitted>>

WhileStep ==
    /\ frame.pc = "while"
    /\ frame.n # 0
    /\ frame' = [frame EXCEPT !.n = while_body(frame.n, frame.s).n,
                              !.s = while_body(frame.n, frame.s).s]
    /\ UNCHANGED <<sess, db, last, out, progress, granted, wire, admitted>>

Return ==
    /\ frame.pc = "while"
    /\ frame.n = 0
    /\ frame' = [frame EXCEPT !.pc = "done", !.result = complement(frame.s)]
    /\ UNCHANGED <<sess, db, last, out, progress, granted, wire, admitted>>

NextCrc ==
    \/ ForStep
    \/ ForExit
    \/ WhileStep
    \/ Return

SpecCrc == InitCrc /\ [][NextCrc]_vars

---------------------------------------------------------------------------
\* Vocabulary of the properties. Every step of a session is one call
\* handle_message(sess[s], db, q, i, k); a property of "every message handled"
\* is stated of the result of that call, for every active session s of a
\* reachable state, every request q and every random draw (i, k). last and
\* out describe the call that led to the state.

\* The result of handling request q on session s with the draws i and k.
Result(s, q, i, k) == handle_message(sess[s], db, q, i, k)

\* The sessions handle_message can run on.
Active == {s \in Live : sess[s].active}

\* The number of rows of the files table for (client_id, filename).
FileCount(d, client_id, filename) ==
    LET Row(v) == [id |-> client_id, file_name |-> filename, verified |-> v]
        Cnt(r) == IF r \in BagToSet(d.files) THEN d.files[r] ELSE 0
    IN Cnt(Row(0)) + Cnt(Row(1))

\* Some row of the files table for (client_id, filename) is marked verified.
HasValidated(d, client_id, filename) ==
    [id |-> client_id, file_name |-> filename, verified |-> 1] \in BagToSet(d.files)

\* A SEND_FILE request the session of client c must accept: its identity is
\* the bound one, it has content, a name the store takes, and at least
\* padded_content_size bytes of ciphertext.
WellFormedFile(q, c) ==
    /\ q.client_id = c.client_id
    /\ q.payload_size > 4 + MAX_FILE_NAME_LEN
    /\ DecodeOk(q.name)
    /\ _validate_filename(_get_string_from_bytes(q.name))
    /\ CtBytes(q.ct) >= padded_content_size(q.content_size)

\* The exceptions that report a violated precondition of a handler.
PreconditionErrors ==
    {"got registration message in file phase", "got public key message in file phase",
     "got login message in file phase", "got file message in login phase",
     "got valid crc message while waiting for file",
     "got terminate message in login phase",
     "wrong payload size in registration", "wrong payload size in public key",
     "wrong payload size in login", "wrong payload size in valid crc",
     "wrong payload size in invalid crc", "wrong payload size in terminate",
     "file message has no file content",
     "client_id or username not matching", "client_id not matching",
     "filename not matching", "AttributeError",
     "something went wrong decrypting the file"}

\* The request was decoded by RequestMessage and reached the match statement.
Framed(request) == RequestMessage(request) = "none"

AllReqs ==
    NameReqs(SIGN_UP) \cup PublicKeyReqs \cup NameReqs(SIGN_IN) \cup SendFileReqs
    \cup NameReqs(CRC_VALID) \cup NameReqs(CRC_INVALID)
    \cup NameReqs(CRC_INVALID_4TH_TIME)

---------------------------------------------------------------------------
\* C1 (as claimed): on a session whose last message was an accepted SEND_FILE,
\* an accepted CRC_VALID with the same identity and filename leaves exactly
\* one file record for (identity, filename), and it is validated.
C1_Original ==
    \A s \in Active :
        (last.sid = s /\ last.code = SEND_FILE /\ last.err = "none")
        => \A q \in NameReqs(CRC_VALID) :
              LET r == Result(s, q, ZeroId, 1) IN
              (/\ q.client_id = sess[s].client_id
               /\ _get_string_from_bytes(q.name) = sess[s].filename
               /\ r.err = "none")
              => /\ FileCount(r.d, r.c.client_id, r.c.filename) = 1
                 /\ HasValidated(r.d, r.c.client_id, r.c.filename)

\* C2 (as claimed): once a session has handled SEND_FILE, CRC_INVALID,
\* SEND_FILE, CRC_INVALID, SEND_FILE, CRC_INVALID, SEND_FILE (each accepted)
\* and then CRC_INVALID_4TH_TIME, all with its bound identity and one
\* filename, it is inactive.
C2_Original ==
    \A s \in 1..Len(progress) :
        progress[s].n = Len(RetrySequence) => ~sess[s].active

\* C3: an accepted CRC_INVALID leaves the session awaiting a file
\* (mode TRANSFER) with no validated record for (identity, pending filename),
\* sends no response, and every well-formed SEND_FILE of the bound identity is
\* then accepted; this holds in every reachable state, however many
\* CRC_INVALID came before.
C3_InvalidCrcAllowsResend ==
    \A s \in Active : \A q \in NameReqs(CRC_INVALID) :
        LET r == Result(s, q, ZeroId, 1) IN
        r.err = "none"
        => /\ r.c.awaiting_file
           /\ r.out = <<>>
           /\ ~HasValidated(r.d, r.c.client_id, r.c.filename)
           /\ \A q2 \in SendFileReqs :
                 WellFormedFile(q2, r.c)
                 => LET r2 == handle_message(r.c, r.d, q2, ZeroId, 1) IN
                    /\ r2.err = "none"
                    /\ r2.out[1].kind = "FileReceived"

\* C3 witness: a second CRC_INVALID was accepted for a file sent twice.
C3_Witness ==
    /\ last.code = CRC_INVALID
    /\ last.err = "none"
    /\ out = <<>>
    /\ sess[last.sid].awaiting_file
    /\ FileCount(db, sess[last.sid].client_id, sess[last.sid].filename) >= 2

\* C4 (as claimed): a message rejected for a violated precondition is answered
\* GenericFailure (GENERAL_ERROR) and leaves every field of the session as it
\* was.
C4_Original ==
    \A s \in Active : \A q \in AllReqs : \A i \in Ids, k \in AesKeys :
        LET r == Result(s, q, i, k) IN
        r.err \in PreconditionErrors
        => /\ r.out = <<GenericFailure>>
           /\ r.c = sess[s]

C6_ErrorKeepsSessionOpen ==
    \A s \in Active : \A q \in AllReqs \cup BadReqs : \A i \in Ids, k \in AesKeys :
        LET r == Result(s, q, i, k) IN
        (q.code # CRC_INVALID_4TH_TIME /\ r.out = <<GenericFailure>>)
        => /\ r.c.active
           /\ \E q2 \in AllReqs : handle_message(r.c, r.d, q2, ZeroId, 1).err = "none"

\* C6 witness: a file message was answered GenericFailure on a session that
\* awaits a file and is still active.
C6_Witness ==
    /\ last.code = SEND_FILE
    /\ out = <<GenericFailure>>
    /\ sess[last.sid].active
    /\ sess[last.sid].awaiting_file

\* C7: a SEND_PUBLIC_KEY or SEND_FILE whose header identity is not the
\* session's bound identity is answered GenericFailure and leaves the clients
\* table, the files table and the saved files unchanged.
C7_ForeignIdentityLeavesStore ==
    \A s \in Active : \A q \in PublicKeyReqs \cup SendFileReqs : \A k \in AesKeys :
        LET r == Result(s, q, ZeroId, k) IN
        q.client_id # sess[s].client_id
        => /\ r.out = <<GenericFailure>>
           /\ r.d = db

\* C7 witness: a file message with a foreign identity was rejected on a
\* session that awaits a file, while the store holds a file.
C7_Witness ==
    /\ last.code = SEND_FILE
    /\ last.err = "client_id not matching"
    /\ out = <<GenericFailure>>
    /\ BagCardinality(db.files) > 0

\* C8: a 255-byte SIGN_UP, on a session not awaiting a file, whose username
\* has a client record is answered RegistrationFailed (SIGN_UP_FAILED),
\* leaves the database as it was and the session's identity and username too.
C8_DuplicateSignUpFails ==
    \A s \in Active : \A q \in NameReqs(SIGN_UP) : \A i \in Ids :
        LET r == Result(s, q, i, 1) IN
        (/\ ~sess[s].awaiting_file
         /\ q.payload_size = MAX_USER_NAME_LEN
         /\ DecodeOk(q.name)
         /\ \E j \in DOMAIN db.clients :
               db.clients[j].name = _get_string_from_bytes(q.name))
        => /\ r.out = <<RegistrationFailed>>
           /\ r.d = db
           /\ r.c = sess[s]

\* C8 witness: a SIGN_UP was answered RegistrationFailed on a session that is
\* bound to a username while two client records exist.
C8_Witness ==
    /\ last.code = SIGN_UP
    /\ out = <<RegistrationFailed>>
    /\ sess[last.sid].username # NoAttr
    /\ Cardinality(DOMAIN db.clients) = 2

\* C9 (as claimed): a SEND_PUBLIC_KEY that passes the mode, size, identity and
\* username checks but whose key does not import is answered GenericFailure,
\* leaves the session key as it was and the session not awaiting a file.
C9_Original ==
    \A s \in Active : \A q \in PublicKeyReqs : \A k \in AesKeys :
        LET r == Result(s, q, ZeroId, k) IN
        r.err = "RSA key format is not supported"
        => /\ r.out = <<GenericFailure>>
           /\ r.c.aes_key = sess[s].aes_key
           /\ ~r.c.awaiting_file

\* C10: SIGN_UP, SEND_PUBLIC_KEY and SIGN_IN on a session awaiting a file
\* (mode TRANSFER), and SEND_FILE and CRC_INVALID_4TH_TIME on one that is not
\* (mode CONTROL), are answered GenericFailure and leave the session as it was.
C10_ModeGating ==
    \A s \in Active : \A q \in AllReqs : \A i \in Ids, k \in AesKeys :
        LET r == Result(s, q, i, k) IN
        (\/ /\ q.code \in {SIGN_UP, SEND_PUBLIC_KEY, SIGN_IN}
            /\ sess[s].awaiting_file
         \/ /\ q.code \in {SEND_FILE, CRC_INVALID_4TH_TIME}
            /\ ~sess[s].awaiting_file)
        => /\ r.out = <<GenericFailure>>
           /\ r.c = sess[s]

\* C10 witness: a SIGN_IN was rejected because the session awaits a file,
\* while the identity the session is bound to has completed its key exchange.
C10_Witness ==
    /\ last.code = SIGN_IN
    /\ last.err = "got login message in file phase"
    /\ out = <<GenericFailure>>
    /\ sess[last.sid].client_id \in DOMAIN db.clients
    /\ db.clients[sess[last.sid].client_id].public_key = GoodKey

---------------------------------------------------------------------------
\* A CRC message of the session's bound identity with a 255-byte payload whose
\* filename is the pending filename of the session.
MatchesPending(q, c) ==
    /\ q.client_id = c.client_id
    /\ q.payload_size = MAX_FILE_NAME_LEN
    /\ c.filename # NoAttr
    /\ DecodeOk(q.name)
    /\ _get_string_from_bytes(q.name) = c.filename

\* C11 (as claimed): a CRC_VALID with the bound identity, a 255-byte payload
\* and the pending filename is answered GenericAck (MESSAGE_RECEIVED) whether
\* the session awaits a file (mode TRANSFER) or not (mode CONTROL).
C11_Original ==
    \A s \in Active : \A q \in NameReqs(CRC_VALID) :
        MatchesPending(q, sess[s])
        => Result(s, q, ZeroId, 1).out = <<GenericAck(sess[s].client_id)>>

\* C11 (amended): such a CRC_VALID is answered GenericAck when the session
\* does not await a file (mode CONTROL); when it awaits a file (mode TRANSFER)
\* it is answered GenericFailure and leaves session and database unchanged.
C11_ValidCrcOnlyInControl ==
    \A s \in Active : \A q \in NameReqs(CRC_VALID) :
        LET r == Result(s, q, ZeroId, 1) IN
        MatchesPending(q, sess[s])
        => /\ ~sess[s].awaiting_file
              => r.out = <<GenericAck(sess[s].client_id)>>
           /\ sess[s].awaiting_file
              => /\ r.out = <<GenericFailure>>
                 /\ r.c = sess[s]
                 /\ r.d = db

\* C11 witness: a CRC_VALID was rejected for the mode on a session that has a
\* pending filename and awaits the file again.
C11_Witness ==
    /\ last.code = CRC_VALID
    /\ last.err = "got valid crc message while waiting for file"
    /\ out = <<GenericFailure>>
    /\ sess[last.sid].filename # NoAttr
    /\ sess[last.sid].awaiting_file

---------------------------------------------------------------------------
\* A SIGN_UP the handler table admits on the session of client c: 255 bytes
\* of a decodable username of letters and spaces, on a session not awaiting a
\* file.
WellFormedSignUp(q, c) ==
    /\ q.code = SIGN_UP
    /\ Framed(q)
    /\ q.payload_size = MAX_USER_NAME_LEN
    /\ DecodeOk(q.name)
    /\ _validate_username(_get_string_from_bytes(q.name))
    /\ ~c.awaiting_file

\* The client records with the username.
RecordsNamed(d, username) == {i \in DOMAIN d.clients : d.clients[i].name = username}

\* C12: with the messages of several sessions interleaved in any order, a
\* username gets RegistrationSuccessful (SIGN_UP_SUCCEEDED) at most once and
\* has at most one client record; once it has one, every further well-formed
\* SIGN_UP with it, from any session, is answered RegistrationFailed
\* (SIGN_UP_FAILED) and adds no record; while it has none, a well-formed
\* SIGN_UP with it (given an identity not in use) is answered
\* RegistrationSuccessful and creates its one record.
C12_OneRegistrationPerUsername ==
    /\ \A n \in BagToSet(granted) :
          /\ granted[n] = 1
          /\ Cardinality(RecordsNamed(db, n)) = 1
    /\ \A i \in DOMAIN db.clients :
          /\ RecordsNamed(db, db.clients[i].name) = {i}
          /\ BagIn(db.clients[i].name, granted)
    /\ \A s \in Active : \A q \in NameReqs(SIGN_UP) : \A i \in Ids :
          LET r == Result(s, q, i, 1)
              n == _get_string_from_bytes(q.name)
          IN WellFormedSignUp(q, sess[s])
             => /\ RecordsNamed(db, n) # {}
                   => /\ r.out = <<RegistrationFailed>>
                      /\ r.d = db
                /\ (RecordsNamed(db, n) = {} /\ i \notin DOMAIN db.clients)
                   => /\ r.out = <<RegistrationSuccessful(i)>>
                      /\ RecordsNamed(r.d, n) = {i}

\* C12 witness: two sessions sent SIGN_UP with the same username; the first
\* is bound to it and the second was answered RegistrationFailed.
C12_Witness ==
    /\ Len(sess) = 2
    /\ last.sid = 2
    /\ last.code = SIGN_UP
    /\ out = <<RegistrationFailed>>
    /\ sess[1].username = PeerName
    /\ sess[2].username = NoAttr
    /\ BagIn(PeerName, granted)

---------------------------------------------------------------------------
---------------------------------------------------------------------------
\* C14: a message handled on an active session is answered with exactly one
\* response, except a CRC_INVALID the handler accepts, which is answered with
\* none; no message is answered with two (a buffer RequestMessage rejects and
\* an unknown code included).
C14_OneResponsePerMessage ==
    \A s \in Active : \A q \in AllReqs \cup BadReqs : \A i \in Ids, k \in AesKeys :
        LET r == Result(s, q, i, k) IN
        IF q.code = CRC_INVALID /\ Framed(q) /\ r.err = "none"
        THEN Len(r.out) = 0
        ELSE Len(r.out) = 1

\* C14 witness: a file message was accepted and answered with the one
\* FileReceived response.
C14_Witness ==
    /\ last.code = SEND_FILE
    /\ last.err = "none"
    /\ Len(out) = 1
    /\ out[1].kind = "FileReceived"

---------------------------------------------------------------------------
\* Buffers RequestMessage rejects: every request with fewer bytes than the
\* header, with the header alone, a byte short and a byte long.
Malformed ==
    UNION {{[q EXCEPT !.nbytes = nb] :
               nb \in {0, REQUEST_MIN_LEN - 1, REQUEST_MIN_LEN,
                       REQUEST_MIN_LEN + q.payload_size - 1,
                       REQUEST_MIN_LEN + q.payload_size + 1}} : q \in AllReqs}

\* C16: a buffer of fewer than 23 bytes, or one whose byte count after the
\* 23-byte header is not the declared payload_size, is rejected by
\* RequestMessage before a handler runs: the session and the database are
\* unchanged, the session stays active, and the answer is GenericFailure.
C16_MalformedBufferChangesNothing ==
    \A s \in Active : \A q \in Malformed \cup BadReqs : \A i \in Ids, k \in AesKeys :
        LET r == Result(s, q, i, k) IN
        (q.nbytes < 23 \/ q.nbytes - 23 # q.payload_size)
        => /\ r.err \in {"Invalid request length", "Invalid payload length"}
           /\ r.c = sess[s]
           /\ r.d = db
           /\ r.c.active
           /\ r.out = <<GenericFailure>>

\* C16 witness: a buffer shorter than the header was rejected on a session
\* that is bound to a registered identity.
C16_Witness ==
    /\ last.err = "Invalid request length"
    /\ out = <<GenericFailure>>
    /\ sess[last.sid].active
    /\ sess[last.sid].client_id \in DOMAIN db.clients
    /\ sess[last.sid].username # NoAttr

---------------------------------------------------------------------------
\* The handler of each request kind.
HandlerOf(code) ==
    CASE code = SIGN_UP -> "_handle_registration"
      [] code = SEND_PUBLIC_KEY -> "_handle_public_key"
      [] code = SIGN_IN -> "_handle_login"
      [] code = SEND_FILE -> "_handle_file"
      [] code = CRC_VALID -> "_handle_valid_crc"
      [] code = CRC_INVALID -> "_handle_invalid_crc"
      [] code = CRC_INVALID_4TH_TIME -> "_handle_terminate"
      [] OTHER -> "_"

\* C17 (as claimed): the match statement sends a well-framed message to a
\* handler exactly when its code is one of the seven codes of RequestCode, and
\* then to the handler of that request kind; a message with another code is
\* answered GenericFailure and changes neither session nor database.
C17_Original ==
    \A s \in Active : \A q \in AllReqs \cup BadReqs :
        Framed(q)
        => IF q.code \in RequestCode
           THEN match_request_code(q.code) = HandlerOf(q.code)
           ELSE /\ match_request_code(q.code) = "_"
                /\ Result(s, q, ZeroId, 1).out = <<GenericFailure>>
                /\ Result(s, q, ZeroId, 1).c = sess[s]
                /\ Result(s, q, ZeroId, 1).d = db

---------------------------------------------------------------------------
\* A name carries a path-traversal sequence: "..", "/" or "\".
HasTraversal(name) ==
    \/ \E i \in 1..Len(name) : name[i] \in {"/", "\\"}
    \/ \E i \in 1..(Len(name) - 1) : name[i] = "." /\ name[i + 1] = "."

\* Name fields with each of the three.
TraversalNames == {<<".", ".", "/", "a">>, <<"a", "/", "b">>, <<"a", "\\", "b">>, <<".", ".">>}

TraversalFileReqs ==
    {Req(SEND_FILE, i, 4 + MAX_FILE_NAME_LEN + CtBytes(Ct(1, 0)), n, GoodKey, 5, Ct(1, 0)) :
        i \in Ids, n \in TraversalNames}

TraversalSignUps ==
    {Req(SIGN_UP, i, MAX_USER_NAME_LEN, n, GoodKey, 0, Ct(0, 0)) :
        i \in Ids, n \in TraversalNames}

\* C20 (as claimed): a SEND_FILE whose filename contains "..", "/" or "\" is
\* answered GenericFailure and adds no row to the files table, and a SIGN_UP
\* whose username contains one of them adds no client record.
C20_Original ==
    \A s \in Active :
        /\ \A q \in TraversalFileReqs :
              HasTraversal(_get_string_from_bytes(q.name))
              => /\ Result(s, q, ZeroId, 1).out = <<GenericFailure>>
                 /\ Result(s, q, ZeroId, 1).d.files = db.files
        /\ \A q \in TraversalSignUps : \A i \in Ids :
              HasTraversal(_get_string_from_bytes(q.name))
              => Result(s, q, i, 1).d.clients = db.clients

---------------------------------------------------------------------------
\* The reference checksum: the table of the generator polynomial 0x04C11DB7,
\* most significant bit first, and the two-phase fold over it.
\* (32-bit values as pairs <<high 16 bits, low 16 bits>>.)
RefPoly == <<1217, 7607>>

RefDouble(r) == <<(r[1] % 32768) * 2 + (r[2] \div 32768), (r[2] % 32768) * 2>>

RECURSIVE RefShift(_, _)
RefShift(r, k) ==
    IF k = 0 THEN r
    ELSE RefShift(IF r[1] >= 32768 THEN XOR32(RefDouble(r), RefPoly) ELSE RefDouble(r),
                  k - 1)

RefTable(j) == RefShift(<<j * 256, 0>>, 8)

\* s = ((s << 8) mod 2^32) XOR table[(s >> 24) XOR byte]
RefFold(acc, byte) ==
    XOR32(<<(acc[1] % 256) * 256 + (acc[2] \div 256), (acc[2] % 256) * 256>>,
          RefTable(XOR(acc[1] \div 256, byte)))

\* The bytes j..k folded in, in order.
RECURSIVE RefData(_, _, _, _)
RefData(bytes, j, k, acc) ==
    IF j > k THEN acc
    ELSE IF j = k THEN RefFold(acc, bytes[j])
    ELSE LET half == RefData(bytes, j, (j + k) \div 2, acc)
         IN CASE half[1] < 65536 /\ half[2] < 65536 ->
                 RefData(bytes, (j + k) \div 2 + 1, k, half)

\* The bytes of the length, from the low byte upward, until nothing remains.
RECURSIVE RefLength(_, _)
RefLength(len, acc) ==
    IF len = 0 THEN acc ELSE RefLength(len \div 256, RefFold(acc, len % 256))

\* The complement of the accumulator, on 32 bits.
RefChecksum(bytes) ==
    LET acc == RefLength(Len(bytes), RefData(bytes, 1, Len(bytes), <<0, 0>>))
    IN <<65535 - acc[1], 65535 - acc[2]>>

\* C18: for every byte string of the bounded set, the value memcrc returns,
\* run loop iteration by loop iteration and evaluated as a whole, is the
\* reference checksum: each byte folded into a 32-bit accumulator that starts
\* at 0, then the bytes of the length from the low byte upward, then the
\* complement on 32 bits.
C18_MemcrcIsTwoPhaseChecksum ==
    frame.pc = "done"
    => /\ frame.result = RefChecksum(frame.b)
       /\ memcrc(frame.b) = RefChecksum(frame.b)

\* C18 witness: memcrc returned for an input of 300 bytes, whose length is
\* folded in as two bytes.
C18_Witness ==
    /\ frame.pc = "done"
    /\ Len(frame.b) = 300
    /\ frame.n = 0

\* The byte strings of the same length that differ from bytes in exactly one
\* position.
MutationValues == CrcBytes \cup {2, 64, 127, 254}
Mutations(bytes) ==
    {m \in {[bytes EXCEPT ![p] = v] : p \in 1..Len(bytes), v \in MutationValues} :
        m # bytes}

\* C19: the value memcrc returned for a byte string is the value a second
\* evaluation of memcrc gives for it, and memcrc of every byte string of the
\* same length that differs from it in exactly one byte is another value.
C19_MemcrcSensitiveToOneByte ==
    frame.pc = "done"
    => /\ memcrc(frame.b) = frame.result
       /\ \A m \in Mutations(frame.b) : memcrc(m) # frame.result

\* C19 witness: memcrc returned for an input of two different bytes, which
\* has mutations in either position.
C19_Witness ==
    /\ frame.pc = "done"
    /\ Len(frame.b) = 2
    /\ frame.b[1] # frame.b[2]
    /\ Cardinality(Mutations(frame.b)) > 2

---------------------------------------------------------------------------
\* C13 (as claimed): when a read returns only a part of a message, the part
\* is not answered with GenericFailure (GENERAL_ERROR), and once all bytes of
\* the message were read the message was handled by a handler exactly once,
\* in however many reads it arrived.
C13_Original ==
    \A s \in 1..Len(wire) :
        wire[s].msg # NoReq
        => /\ (/\ last.sid = s
               /\ wire[s].reads >= 1
               /\ wire[s].off < Total(wire[s].msg))
              => out # <<GenericFailure>>
           /\ wire[s].off = Total(wire[s].msg) => wire[s].handled = 1

---------------------------------------------------------------------------
\* SEND_FILE requests around the length rule: content sizes at and next to
\* the multiples of AES_KEY_SIZE, with ciphertexts of 0, 1, 15, 16, 17, 31, 32
\* and 33 bytes.
LengthSizes == {0, 1, 15, 16, 17, 32}
LengthCts == {Ct(0, 0), Ct(0, 1), Ct(0, 15), Ct(1, 0), Ct(1, 1), Ct(1, 15), Ct(2, 0), Ct(2, 1)}
LengthReqs ==
    {Req(SEND_FILE, i, 4 + MAX_FILE_NAME_LEN + CtBytes(ct), <<"a">>, GoodKey, cs, ct) :
        i \in Ids, cs \in LengthSizes, ct \in LengthCts}

\* n rounded up to the next multiple of 16 (n itself when it is one).
RoundUp16(n) == CHOOSE m \in n..(n + 15) : m % 16 = 0

\* C21 (as claimed): on a session awaiting a file (mode TRANSFER), a SEND_FILE
\* with the bound identity and a valid filename is accepted exactly when its
\* ciphertext has at least content_size rounded up to 16 bytes, content_size 0
\* with an empty ciphertext included.
C21_Original ==
    \A s \in Active : \A q \in LengthReqs :
        (/\ sess[s].awaiting_file
         /\ q.client_id = sess[s].client_id)
        => (Result(s, q, ZeroId, 1).err = "none"
            <=> CtBytes(q.ct) >= RoundUp16(q.content_size))

---------------------------------------------------------------------------
\* The number of 16-byte blocks that hold n bytes.
BlocksFor(n) == (n + 15) \div 16

\* The content the claim expects stored: the first BlocksFor(content_size)
\* blocks of the ciphertext, each decrypted under the session key, cut to
\* content_size bytes.
ExpectedContent(q, c) ==
    [size |-> q.content_size,
     blocks |-> [j \in 1..BlocksFor(q.content_size) |-> Dec(c.aes_key, q.ct.blocks[j])]]

\* C22: an accepted SEND_FILE stores, at the path of (bound identity,
\* filename), the block-wise decryption of the first ceil(content_size/16)
\* blocks of the ciphertext cut to content_size bytes; adds one file row for
\* (bound identity, filename) with verified = 0; sets the pending filename to
\* the filename of the message; answers FileReceived (CRC_VALID) with the bound
\* identity, content_size, the filename and the checksum of the stored content;
\* and leaves the session not awaiting a file (mode CONTROL).
C22_AcceptedSendFileEffect ==
    \A s \in Active : \A q \in SendFileReqs \cup LengthReqs :
        LET r == Result(s, q, ZeroId, 1)
            c == sess[s]
            name == _get_string_from_bytes(q.name)
            row == [id |-> c.client_id, file_name |-> name, verified |-> 0]
            path == _id_to_path(c.client_id, name)
        IN r.err = "none"
           => /\ path \in DOMAIN r.d.saved
              /\ r.d.saved[path] = ExpectedContent(q, c)
              /\ \A p \in DOMAIN db.saved : p # path => r.d.saved[p] = db.saved[p]
              /\ r.d.files = db.files (+) SetToBag({row})
              /\ r.d.clients = db.clients
              /\ r.c = [c EXCEPT !.filename = name, !.awaiting_file = FALSE]
              /\ r.out = <<FileReceived(c.client_id, q.content_size, name, r.d.saved[path])>>

\* C22 witness: a SEND_FILE with content_size 5 and one block of ciphertext was
\* accepted: the saved content is that block decrypted under the session key
\* and cut to 5 bytes, the row is unvalidated and the session in mode CONTROL.
C22_Witness ==
    /\ last.code = SEND_FILE
    /\ last.err = "none"
    /\ out # <<>>
    /\ out[1].kind = "FileReceived"
    /\ out[1].content_size = 5
    /\ LET c == sess[last.sid]
           path == _id_to_path(c.client_id, c.filename)
       IN /\ ~c.awaiting_file
          /\ c.aes_key \in AesKeys
          /\ path \in DOMAIN db.saved
          /\ db.saved[path] = [size |-> 5, blocks |-> <<Dec(c.aes_key, "c")>>]
          /\ out[1].crc_of = db.saved[path]
          /\ BagIn([id |-> c.client_id, file_name |-> c.filename, verified |-> 0], db.files)

---------------------------------------------------------------------------
\* A SEND_PUBLIC_KEY the session of client c accepts: the session does not
\* await a file (mode CONTROL), the payload has 255 + 160 bytes, the header
\* identity and the username of the payload are the ones the session is bound
\* to, and the key imports.
AcceptablePublicKey(q, c) ==
    /\ ~c.awaiting_file
    /\ q.payload_size = MAX_USER_NAME_LEN + PUBLIC_KEY_SIZE
    /\ q.client_id = c.client_id
    /\ c.username # NoAttr
    /\ DecodeOk(q.name)
    /\ _get_string_from_bytes(q.name) = c.username
    /\ Importable(q.public_key)

\* C23: a SEND_PUBLIC_KEY is accepted exactly when it is acceptable in that
\* sense, and then the client record of the bound identity holds the submitted
\* public key, the newly drawn session key is held by the session and by that
\* record, nothing else of the store changes, the response is
\* PublicKeyReceived (PUBLIC_KEY_RECEIVED) with the key wrapped under the
\* submitted public key, and the session awaits a file (mode TRANSFER).
C23_AcceptedPublicKeyEffect ==
    \A s \in Active : \A q \in PublicKeyReqs : \A k \in AesKeys :
        LET r == Result(s, q, ZeroId, k)
            c == sess[s]
        IN /\ r.err = "none" <=> AcceptablePublicKey(q, c)
           /\ r.err = "none"
              => /\ c.client_id \in DOMAIN db.clients
                 /\ r.d.clients =
                       [db.clients EXCEPT ![c.client_id] =
                           [name |-> db.clients[c.client_id].name,
                            public_key |-> q.public_key, aes_key |-> k]]
                 /\ r.d.files = db.files
                 /\ r.d.saved = db.saved
                 /\ r.c = [c EXCEPT !.aes_key = k, !.awaiting_file = TRUE]
                 /\ r.out = <<PublicKeyReceived(c.client_id, Wrap(q.public_key, k))>>

\* C23 witness: a SEND_PUBLIC_KEY was accepted on a session bound by SIGN_UP;
\* the record of its identity holds the importable key and the session key,
\* and the session awaits a file.
C23_Witness ==
    /\ last.code = SEND_PUBLIC_KEY
    /\ last.err = "none"
    /\ out # <<>>
    /\ out[1].kind = "PublicKeyReceived"
    /\ LET c == sess[last.sid] IN
          /\ c.awaiting_file
          /\ c.username # NoAttr
          /\ c.aes_key \in AesKeys
          /\ c.client_id \in DOMAIN db.clients
          /\ db.clients[c.client_id].public_key = GoodKey
          /\ db.clients[c.client_id].aes_key = c.aes_key
          /\ out[1].enc_aes_key = Wrap(GoodKey, c.aes_key)

---------------------------------------------------------------------------
\* A 255-byte SIGN_IN, on a session not awaiting a file (mode CONTROL), whose
\* header identity has a client record with a stored public key.
SignInOfKeyedRecord(q, c, d) ==
    /\ ~c.awaiting_file
    /\ q.payload_size = MAX_USER_NAME_LEN
    /\ q.client_id \in DOMAIN d.clients
    /\ d.clients[q.client_id].public_key # EmptyBytes

\* C24 (as claimed): such a SIGN_IN whose username is the record's binds the
\* session to the identity and username of the message, stores the newly drawn
\* session key in the session and in the record, answers LoginSuccessful
\* (SIGN_IN_ALLOWED) with the key wrapped under the stored public key and
\* leaves the session awaiting a file (mode TRANSFER); with another username it
\* is answered GenericFailure (GENERAL_ERROR) and changes neither the session
\* nor the clients table.
C24_Original ==
    \A s \in Active : \A q \in NameReqs(SIGN_IN) : \A k \in AesKeys :
        LET r == Result(s, q, ZeroId, k)
            c == sess[s]
            row == db.clients[q.client_id]
            same == DecodeOk(q.name) /\ _get_string_from_bytes(q.name) = row.name
        IN SignInOfKeyedRecord(q, c, db)
           => /\ same
                 => /\ r.c = [c EXCEPT !.client_id = q.client_id, !.username = row.name,
                                       !.aes_key = k, !.awaiting_file = TRUE]
                    /\ r.d.clients = [db.clients EXCEPT ![q.client_id].aes_key = k]
                    /\ r.out = <<LoginSuccessful(q.client_id, Wrap(row.public_key, k))>>
              /\ ~same
                 => /\ r.out = <<GenericFailure>>
                    /\ r.c = c
                    /\ r.d = db

---------------------------------------------------------------------------
\* C25: a 255-byte SIGN_IN, on a session not awaiting a file (mode CONTROL),
\* whose header identity has no client record or a record without a stored
\* public key is answered LoginFailed (SIGN_IN_REJECTED) and leaves the session
\* (identity, username, session key, mode) and the store as they were; a
\* well-formed SIGN_UP with a username that has no record (and an identity not
\* in use) is then answered RegistrationSuccessful on the same session.
C25_SignInRejectedChangesNothing ==
    \A s \in Active : \A q \in NameReqs(SIGN_IN) : \A k \in AesKeys :
        LET r == Result(s, q, ZeroId, k)
            c == sess[s]
        IN (/\ ~c.awaiting_file
            /\ q.payload_size = MAX_USER_NAME_LEN
            /\ \/ q.client_id \notin DOMAIN db.clients
               \/ db.clients[q.client_id].public_key = EmptyBytes)
           => /\ r.out = <<LoginFailed(c.client_id)>>
              /\ r.c = c
              /\ r.d = db
              /\ \A q2 \in NameReqs(SIGN_UP) : \A i \in Ids :
                    (/\ WellFormedSignUp(q2, r.c)
                     /\ RecordsNamed(r.d, _get_string_from_bytes(q2.name)) = {}
                     /\ i \notin DOMAIN r.d.clients)
                    => handle_message(r.c, r.d, q2, i, k).out = <<RegistrationSuccessful(i)>>

\* C25 witness: a SIGN_IN for the identity of a record without a public key
\* was answered LoginFailed; the session does not await a file and its session
\* key is still unset.
C25_Witness ==
    /\ last.code = SIGN_IN
    /\ last.err = "none"
    /\ out = <<LoginFailed(sess[last.sid].client_id)>>
    /\ ~sess[last.sid].awaiting_file
    /\ sess[last.sid].aes_key = EmptyBytes
    /\ \E i \in DOMAIN db.clients : db.clients[i].public_key = EmptyBytes

---------------------------------------------------------------------------
\* C26: a SIGN_UP is answered RegistrationSuccessful (SIGN_UP_SUCCEEDED)
\* exactly when it is well-formed on a session not awaiting a file (mode
\* CONTROL), its username has no record and the identity drawn is not in use;
\* then exactly one client record is added, under the drawn identity, which no
\* record had, with that username and neither public key nor session key; the
\* older records, the files table and the saved files are as before; the
\* session is bound to that identity and username and still does not await a
\* file; and the response carries the new identity.
C26_AcceptedSignUpEffect ==
    \A s \in Active : \A q \in NameReqs(SIGN_UP) : \A i \in Ids :
        LET r == Result(s, q, i, 1)
            c == sess[s]
            n == _get_string_from_bytes(q.name)
            accepted == r.out # <<>> /\ r.out[1].kind = "RegistrationSuccessful"
        IN /\ accepted
              <=> /\ WellFormedSignUp(q, c)
                  /\ RecordsNamed(db, n) = {}
                  /\ i \notin DOMAIN db.clients
           /\ accepted
              => /\ DOMAIN r.d.clients = DOMAIN db.clients \cup {i}
                 /\ \A j \in DOMAIN db.clients : j # i /\ r.d.clients[j] = db.clients[j]
                 /\ r.d.clients[i] =
                       [name |-> n, public_key |-> EmptyBytes, aes_key |-> EmptyBytes]
                 /\ r.d.files = db.files
                 /\ r.d.saved = db.saved
                 /\ r.c = [c EXCEPT !.client_id = i, !.username = n]
                 /\ ~r.c.awaiting_file
                 /\ r.out = <<RegistrationSuccessful(i)>>

\* C26 witness: a second SIGN_UP was accepted while a record existed: there
\* are two records, the session is bound to the new one, which has no keys,
\* and the response carries its identity.
C26_Witness ==
    /\ last.code = SIGN_UP
    /\ last.err = "none"
    /\ out # <<>>
    /\ out[1].kind = "RegistrationSuccessful"
    /\ Cardinality(DOMAIN db.clients) = 2
    /\ LET c == sess[last.sid] IN
          /\ c.client_id = out[1].client_id
          /\ ~c.awaiting_file
          /\ db.clients[c.client_id] =
                [name |-> c.username, public_key |-> EmptyBytes, aes_key |-> EmptyBytes]
          /\ \E j \in DOMAIN db.clients : db.clients[j].public_key # EmptyBytes

---------------------------------------------------------------------------
\* The messages of the claim: every request other than SIGN_UP and SIGN_IN.
AfterBindingReqs ==
    PublicKeyReqs \cup SendFileReqs \cup NameReqs(CRC_VALID)
    \cup NameReqs(CRC_INVALID) \cup NameReqs(CRC_INVALID_4TH_TIME)

\* C27 (as claimed): a session just accepted does not await a file (mode
\* CONTROL), is active and has no username, session key or pending filename;
\* and as long as no SIGN_UP or SIGN_IN of a session was answered with success,
\* every SEND_PUBLIC_KEY, SEND_FILE, CRC_VALID, CRC_INVALID and
\* CRC_INVALID_4TH_TIME on it, with any header identity (the zero identity
\* included), is answered GenericFailure (GENERAL_ERROR) and leaves the session
\* and the store as they were.
C27_Original ==
    /\ (last.sid > 0 /\ last.code = NoReq.code /\ last.err = "none")
       => LET c == sess[last.sid] IN
          /\ ~c.awaiting_file
          /\ c.active
          /\ c.username = NoAttr
          /\ c.aes_key = EmptyBytes
          /\ c.filename = NoAttr
    /\ \A s \in Active :
          ~admitted[s]
          => \A q \in AfterBindingReqs : \A k \in AesKeys :
                LET r == Result(s, q, ZeroId, k) IN
                /\ r.out = <<GenericFailure>>
                /\ r.c = sess[s]
                /\ r.d = db

---------------------------------------------------------------------------
\* C28: handling a message never adds a file row that is validated
\* (verified = 1), by INSERT or by UPDATE, unless the message is an accepted
\* CRC_VALID handled on a session bound to the identity of the row and naming
\* the filename of the row; a row is stored with verified = 0, and no message
\* validates a row of another identity or another filename.
C28_ValidatedOnlyByOwnersCrcValid ==
    \A s \in Active : \A q \in AllReqs \cup BadReqs : \A i \in Ids, k \in AesKeys :
        LET r == Result(s, q, i, k)
            c == sess[s]
        IN \A row \in BagToSet(r.d.files) :
              /\ CopiesIn(row, r.d.files) > CopiesIn(row, db.files)
                 => \/ row.verified = 0
                    \/ /\ q.code = CRC_VALID
                       /\ r.err = "none"
              /\ (row.verified = 1 /\ CopiesIn(row, r.d.files) > CopiesIn(row, db.files))
                 => /\ row.id = c.client_id
                    /\ DecodeOk(q.name)
                    /\ row.file_name = _get_string_from_bytes(q.name)

\* C28 witness: a CRC_VALID was accepted on a session whose identity has a
\* row for the filename it named, while the files table also holds a row that
\* differs in the identity or the filename; that row is not validated.
C28_Witness ==
    /\ last.code = CRC_VALID
    /\ last.err = "none"
    /\ out = <<GenericAck(sess[last.sid].client_id)>>
    /\ LET c == sess[last.sid] IN
          /\ \E row \in BagToSet(db.files) :
                row.id = c.client_id /\ row.file_name = c.filename
          /\ \E row \in BagToSet(db.files) :
                /\ row.id # c.client_id \/ row.file_name # c.filename
                /\ row.verified = 0

---------------------------------------------------------------------------
\* C29 (as claimed): in every reachable state every row of the files table is
\* owned by an identity that has a client record with a stored public key.
C29_Original ==
    \A row \in BagToSet(db.files) :
        /\ row.id \in DOMAIN db.clients
        /\ db.clients[row.id].public_key # EmptyBytes

---------------------------------------------------------------------------
\* C30 (as claimed): once a SIGN_UP or SIGN_IN of a session was answered with
\* success, no message handled on the session leaves it with another identity
\* or another username.
C30_Original ==
    \A s \in Active :
        admitted[s]
        => \A q \in AllReqs \cup BadReqs : \A i \in Ids, k \in AesKeys :
              LET r == Result(s, q, i, k) IN
              /\ r.c.client_id = sess[s].client_id
              /\ r.c.username = sess[s].username

---------------------------------------------------------------------------
\* C31 (as claimed): whenever a session awaits a file (mode TRANSFER), its
\* session key is the session key the clients table holds for the identity
\* the session is bound to, with the messages of several sessions interleaved
\* in any order and with two sessions signed in under one identity.
C31_Original ==
    \A s \in Live :
        sess[s].awaiting_file
        => /\ sess[s].client_id \in DOMAIN db.clients
           /\ db.clients[sess[s].client_id].aes_key = sess[s].aes_key

---------------------------------------------------------------------------
\* C32 (as claimed): a SEND_PUBLIC_KEY answered GenericFailure (GENERAL_ERROR)
\* leaves the public key and the session key of every client record as they
\* were; hence a public key a record holds was stored by a SEND_PUBLIC_KEY
\* answered PublicKeyReceived, and is a key that imports.
C32_Original ==
    /\ \A i \in DOMAIN db.clients :
          db.clients[i].public_key # EmptyBytes => Importable(db.clients[i].public_key)
    /\ \A s \in Active : \A q \in PublicKeyReqs : \A k \in AesKeys :
          LET r == Result(s, q, ZeroId, k) IN
          r.out = <<GenericFailure>>
          => \A i \in DOMAIN db.clients :
                /\ r.d.clients[i].public_key = db.clients[i].public_key
                /\ r.d.clients[i].aes_key = db.clients[i].aes_key

---------------------------------------------------------------------------
\* C33 (as claimed): in every reachable state the files table holds at most
\* one row per (identity, filename).
C33_Original ==
    \A row \in BagToSet(db.files) : FileCount(db, row.id, row.file_name) <= 1

---------------------------------------------------------------------------
\* C34: in every reachable state a session that awaits a file (mode TRANSFER)
\* holds a session key and a username; and a message takes a session from not
\* awaiting a file to awaiting one only when it is a SEND_PUBLIC_KEY answered
\* PublicKeyReceived, a SIGN_IN answered LoginSuccessful, or an accepted
\* CRC_INVALID on a session that has the pending filename of an earlier
\* SEND_FILE.
C34_TransferNeedsKeyAndUsername ==
    /\ \A s \in Live :
          sess[s].awaiting_file
          => /\ sess[s].aes_key # EmptyBytes
             /\ sess[s].username # NoAttr
    /\ \A s \in Active : \A q \in AllReqs \cup BadReqs : \A i \in Ids, k \in AesKeys :
          LET r == Result(s, q, i, k)
              c == sess[s]
          IN (~c.awaiting_file /\ r.c.awaiting_file)
             => /\ r.err = "none"
                /\ \/ q.code = SEND_PUBLIC_KEY /\ r.out[1].kind = "PublicKeyReceived"
                   \/ q.code = SIGN_IN /\ r.out[1].kind = "LoginSuccessful"
                   \/ q.code = CRC_INVALID /\ r.out = <<>> /\ c.filename # NoAttr

\* C34 witness: an accepted CRC_INVALID put a session back to awaiting a file;
\* the session has the pending filename of its SEND_FILE, a session key and a
\* username.
C34_Witness ==
    /\ last.code = CRC_INVALID
    /\ last.err = "none"
    /\ LET c == sess[last.sid] IN
          /\ c.awaiting_file
          /\ c.filename # NoAttr
          /\ c.aes_key # EmptyBytes
          /\ c.username # NoAttr
          /\ BagCardinality(db.files) > 0

---------------------------------------------------------------------------
\* C35: a message leaves a session inactive only when it is an accepted
\* CRC_INVALID_4TH_TIME, handled on a session that awaits a file (mode
\* TRANSFER), with the bound identity, a 255-byte payload and the pending
\* filename; and a session that is inactive stays as it is in every step, a
\* call of handle_message on it raising "got message on inactive client"
\* without a response sent or a change of the store.
C35_AliveAbsorbing ==
    /\ [](\A s \in Active : \A q \in AllReqs \cup BadReqs : \A i \in Ids, k \in AesKeys :
             LET r == Result(s, q, i, k)
                 c == sess[s]
             IN ~r.c.active
                => /\ q.code = CRC_INVALID_4TH_TIME
                   /\ r.err = "none"
                   /\ c.awaiting_file
                   /\ MatchesPending(q, c))
    /\ [][\A s \in 1..Len(sess) :
             ~sess[s].active
             => /\ sess'[s] = sess[s]
                /\ last'.sid = s
                   => /\ last'.err = "got message on inactive client"
                      /\ out' = <<>>
                      /\ sess' = sess
                      /\ db' = db]_vars

\* C35 witness: handle_message was called on a session that an accepted
\* CRC_INVALID_4TH_TIME had made inactive; it raised, nothing was sent, and
\* the session is still inactive with its file in the store.
C35_Witness ==
    /\ last.sid > 0
    /\ last.err = "got message on inactive client"
    /\ out = <<>>
    /\ ~sess[last.sid].active
    /\ sess[last.sid].awaiting_file
    /\ BagCardinality(db.files) > 0

---------------------------------------------------------------------------
\* C36: in a call of memcrc the accumulator s is a 32-bit value after every
\* step of the for loop and of the while loop; the table index of the next
\* step, (s >> 24) ^ ch in the for loop and (s >> 24) ^ c in the while loop,
\* lies in 0..255; the value returned is a 32-bit value; and for the empty
\* byte string it is 0xFFFFFFFF.
C36_MemcrcStaysWithin32Bits ==
    /\ frame.s \in Word32
    /\ (frame.pc = "for" /\ frame.i < Len(frame.b))
       => XOR(shr24(frame.s), frame.b[frame.i + 1]) \in 0..255
    /\ (frame.pc = "while" /\ frame.n # 0)
       => XOR(shr24(frame.s), frame.n % 256) \in 0..255
    /\ frame.pc = "done"
       => /\ frame.result \in Word32
          /\ frame.b = <<>> => frame.result = <<65535, 65535>>
    /\ memcrc(<<>>) = <<65535, 65535>>

\* C36 witness: in the while loop of a call for 300 bytes the accumulator has
\* its highest bit set before a byte of the length is folded in, so that
\* s << 8 has bits beyond the 32 that UNSIGNED cuts.
C36_Witness ==
    /\ frame.pc = "while"
    /\ Len(frame.b) = 300
    /\ frame.n # 0
    /\ shr24(frame.s) > 127

===========================================================================
